---- MODULE Spec2Model ----
(***************************************************************************)
(* The OAuth subsystem of the Harbor bridge (bridge-rs/src/oauth): flow    *)
(* start and PKCE, the pending-flow map, the callback listener and its     *)
(* outcome channel, and the token store with refresh on read.              *)
(*                                                                         *)
(* Every async fn is cut at the awaits at which another task can change    *)
(* what the fn reads next; the code between two such awaits is one action. *)
(* An Option<T> is the empty sequence (None) or a one-element sequence.    *)
(***************************************************************************)
EXTENDS Naturals, Integers, Sequences, FiniteSets, TLC

\* ------------------------------------------------------------------ bounds
MaxTime == 1    \* the clock stops after this many ticks
MaxIssue == 2   \* token responses the provider grants
MaxFlows == 2   \* flows start_flow creates
MaxQueuedFlows == 11   \* flows start_flow creates where the outcome channel is to fill

\* ------------------------------------------------------- program constants
EXPIRY_MARGIN_MS == 60000
CHANNEL_CAPACITY == 10
OAUTH_PORT == 8765

\* One tick of the model's clock, in milliseconds.
TickMs == 60 * 1000

\* ------------------------------------------------------------ input values
Servers == {"srv1", "srv2"}
ProviderIds == {"google", "github", "gitlab"}
\* generate_state and generate_pkce draw 32 random bytes each: the n-th draw is taken to
\* be new (a repeat has probability 2^-256).
StateOf(n) == "st" \o ToString(n)
VerifierOf(n) == "ver" \o ToString(n)
States == {StateOf(n) : n \in 1..MaxFlows}
Verifiers == {VerifierOf(n) : n \in 1..MaxFlows}
Codes == {"code1"}
ScopeLists == {<< >>, <<"scope.a", "scope.b">>}
\* expires_in values (seconds) a token response may carry
Lifetimes == {90}

Handlers == {"h1", "h2"}
Clients == {"g1", "g2"}
Starters == {"f1"}

None == << >>
Some(x) == <<x>>
IsSome(o) == o # << >>
Unwrap(o) == o[1]

\* HashMap::insert / HashMap::remove on a map held as a function
MapInsert(m, k, v) == [x \in DOMAIN m \cup {k} |-> IF x = k THEN v ELSE m[x]]
MapRemove(m, k) == [x \in DOMAIN m \ {k} |-> m[x]]
EmptyMap == [x \in {} |-> None]

VARIABLES
    now,            \* chrono::Utc::now().timestamp_millis(), in ticks
    creds,          \* OAUTH_CREDENTIALS: provider_id -> OAuthCredentials
    pending,        \* PENDING_FLOWS: state -> OAuthFlowState
    tokenStore,     \* TOKEN_STORE: server_id -> StoredTokens
    storeLock,      \* who holds TOKEN_STORE's write guard across an await
    disk,           \* ~/.harbor/oauth_tokens.json
    serverRunning,  \* SERVER_RUNNING
    chan,           \* the mpsc channel of TokenResult
    consumer,       \* the token handler task: the TokenResult it received
    hs,             \* callback requests in flight (handle_callback)
    gs,             \* rpc_get_tokens calls
    fs,             \* rpc_start_flow calls
    flows,          \* flows start_flow has created
    issued,         \* token responses the provider has granted
    boundTo         \* (history) access token -> the server_id, provider and scopes of
                    \* the flow or record the provider granted it for

vars == <<now, creds, pending, tokenStore, storeLock, disk, serverRunning, chan,
          consumer, hs, gs, fs, flows, issued, boundTo>>

NowMs == now * TickMs

\* --------------------------------------------------------------- results
Ok(v) == [ok |-> TRUE, val |-> v]
Err(e) == [ok |-> FALSE, err |-> e]

\* ------------------------------------------------------------- providers
google_config ==
    [provider_id |-> "google", display_name |-> "Google",
     authorization_url |-> "https://accounts.google.com/o/oauth2/v2/auth",
     token_url |-> "https://oauth2.googleapis.com/token",
     revocation_url |-> Some("https://oauth2.googleapis.com/revoke"),
     pkce_enabled |-> TRUE]

github_config ==
    [provider_id |-> "github", display_name |-> "GitHub",
     authorization_url |-> "https://github.com/login/oauth/authorize",
     token_url |-> "https://github.com/login/oauth/access_token",
     revocation_url |-> None,
     pkce_enabled |-> FALSE]

get_provider_config(provider_id) ==
    CASE provider_id = "google" -> Some(google_config)
      [] provider_id = "github" -> Some(github_config)
      [] OTHER -> None

\* ------------------------------------------------------------------ flow
CALLBACK_URL == "http://127.0.0.1:8765/oauth/callback"

\* The challenge of the "plain" method: the verifier itself.
S256_plain(code_verifier) == code_verifier

\* URL_SAFE_NO_PAD.encode(Sha256(code_verifier)): a text that is a function of the
\* verifier and differs from every verifier.
S256(code_verifier) == "S256(" \o code_verifier \o ")"

\* generate_pkce, given the verifier the random bytes encode to
generate_pkce(code_verifier) == <<code_verifier, S256(code_verifier)>>

\* The bytes generate_state and generate_pkce draw from the random generator, and the
\* bytes of a SHA-256 digest.
RANDOM_BYTES == 32
SHA256_BYTES == 32

\* The alphabet of base64's URL_SAFE engine
UrlSafeAlphabet ==
    <<"A", "B", "C", "D", "E", "F", "G", "H", "I", "J", "K", "L", "M", "N", "O", "P",
      "Q", "R", "S", "T", "U", "V", "W", "X", "Y", "Z", "a", "b", "c", "d", "e", "f",
      "g", "h", "i", "j", "k", "l", "m", "n", "o", "p", "q", "r", "s", "t", "u", "v",
      "w", "x", "y", "z", "0", "1", "2", "3", "4", "5", "6", "7", "8", "9", "-", "_">>

Sextet(n) == UrlSafeAlphabet[n + 1]

\* An encoding of the whole groups of three bytes only.
RECURSIVE URL_SAFE_NO_PAD_whole_groups(_)
URL_SAFE_NO_PAD_whole_groups(bytes) ==
    IF Len(bytes) < 3 THEN << >>
    ELSE << Sextet(bytes[1] \div 4),
            Sextet((bytes[1] % 4) * 16 + bytes[2] \div 16),
            Sextet((bytes[2] % 16) * 4 + bytes[3] \div 64),
            Sextet(bytes[3] % 64) >>
         \o URL_SAFE_NO_PAD_whole_groups(SubSeq(bytes, 4, Len(bytes)))

\* URL_SAFE_NO_PAD.encode(bytes): the text as a sequence of characters, four for each
\* group of three bytes, two or three for a last group of one or two bytes, no '='.
RECURSIVE URL_SAFE_NO_PAD(_)
URL_SAFE_NO_PAD(bytes) ==
    IF Len(bytes) = 0 THEN << >>
    ELSE IF Len(bytes) = 1
    THEN << Sextet(bytes[1] \div 4), Sextet((bytes[1] % 4) * 16) >>
    ELSE IF Len(bytes) = 2
    THEN << Sextet(bytes[1] \div 4),
            Sextet((bytes[1] % 4) * 16 + bytes[2] \div 16),
            Sextet((bytes[2] % 16) * 4) >>
    ELSE << Sextet(bytes[1] \div 4),
            Sextet((bytes[1] % 4) * 16 + bytes[2] \div 16),
            Sextet((bytes[2] % 16) * 4 + bytes[3] \div 64),
            Sextet(bytes[3] % 64) >>
         \o URL_SAFE_NO_PAD(SubSeq(bytes, 4, Len(bytes)))

\* generate_state, given the bytes the random generator returned
generate_state(bytes) == URL_SAFE_NO_PAD(bytes)

\* The texts of generate_pkce, given the bytes the random generator returned and the
\* digest Sha256 returned for the verifier's text
generate_pkce_text(verifier_bytes, hash) ==
    <<URL_SAFE_NO_PAD(verifier_bytes), URL_SAFE_NO_PAD(hash)>>

\* scopes.join(" ")
RECURSIVE Join(_)
Join(scopes) ==
    IF Len(scopes) = 0 THEN ""
    ELSE IF Len(scopes) = 1 THEN scopes[1]
    ELSE scopes[1] \o " " \o Join(Tail(scopes))

\* The query pairs without code_challenge_method.
AuthQuery_no_method(provider_id, scopes, credentials, state, code_challenge) ==
    << <<"client_id", credentials.client_id>>,
       <<"redirect_uri", CALLBACK_URL>>,
       <<"response_type", "code">>,
       <<"state", state>> >>
    \o (IF Len(scopes) # 0 THEN << <<"scope", Join(scopes)>> >> ELSE << >>)
    \o (IF IsSome(code_challenge)
        THEN << <<"code_challenge", Unwrap(code_challenge)>> >>
        ELSE << >>)
    \o (IF provider_id = "google"
        THEN << <<"access_type", "offline">>, <<"prompt", "consent">> >>
        ELSE << >>)

\* The query pairs with access_type and prompt for every provider.
AuthQuery_offline_for_all(provider_id, scopes, credentials, state, code_challenge) ==
    << <<"client_id", credentials.client_id>>,
       <<"redirect_uri", CALLBACK_URL>>,
       <<"response_type", "code">>,
       <<"state", state>> >>
    \o (IF Len(scopes) # 0 THEN << <<"scope", Join(scopes)>> >> ELSE << >>)
    \o (IF IsSome(code_challenge)
        THEN << <<"code_challenge", Unwrap(code_challenge)>>,
                <<"code_challenge_method", "S256">> >>
        ELSE << >>)
    \o << <<"access_type", "offline">>, <<"prompt", "consent">> >>

\* The query pairs start_flow appends, in order.
AuthQuery(provider_id, scopes, credentials, state, code_challenge) ==
    << <<"client_id", credentials.client_id>>,
       <<"redirect_uri", CALLBACK_URL>>,
       <<"response_type", "code">>,
       <<"state", state>> >>
    \o (IF Len(scopes) # 0 THEN << <<"scope", Join(scopes)>> >> ELSE << >>)
    \o (IF IsSome(code_challenge)
        THEN << <<"code_challenge", Unwrap(code_challenge)>>,
                <<"code_challenge_method", "S256">> >>
        ELSE << >>)
    \o (IF provider_id = "google"
        THEN << <<"access_type", "offline">>, <<"prompt", "consent">> >>
        ELSE << >>)

\* start_flow; state and verifier are what generate_state and the verifier bytes of
\* generate_pkce came to, t is the clock.
start_flow(provider_id, server_id, scopes, credentials, state, verifier, t) ==
    LET config == get_provider_config(provider_id) IN
    IF config = None THEN Err("Unknown provider: " \o provider_id)
    ELSE
        LET pkce == IF Unwrap(config).pkce_enabled
                    THEN <<Some(generate_pkce(verifier)[1]), Some(generate_pkce(verifier)[2])>>
                    ELSE <<None, None>>
            url == [base |-> Unwrap(config).authorization_url,
                    query |-> AuthQuery(provider_id, scopes, credentials, state, pkce[2])]
            flow_state == [state |-> state,
                           code_verifier |-> pkce[1],
                           provider_id |-> provider_id,
                           server_id |-> server_id,
                           scopes |-> scopes,
                           started_at |-> t]
        IN Ok([auth_url |-> url, flow |-> flow_state])

\* The form exchange_code posts to the token endpoint.
ExchangeForm(code, flow, credentials) ==
    << <<"client_id", credentials.client_id>>,
       <<"client_secret", credentials.client_secret>>,
       <<"code", code>>,
       <<"redirect_uri", CALLBACK_URL>>,
       <<"grant_type", "authorization_code">> >>
    \o (IF IsSome(flow.code_verifier)
        THEN << <<"code_verifier", Unwrap(flow.code_verifier)>> >>
        ELSE << >>)

\* The form refresh_tokens posts to the token endpoint.
RefreshForm(refresh_token, credentials) ==
    << <<"client_id", credentials.client_id>>,
       <<"client_secret", credentials.client_secret>>,
       <<"refresh_token", refresh_token>>,
       <<"grant_type", "refresh_token">> >>

\* expires_in (seconds) to expires_at (epoch ms), from the time the response is read
ExpiresAt(expires_in, t) ==
    IF IsSome(expires_in) THEN Some(t + Unwrap(expires_in) * 1000) ELSE None

\* What exchange_code makes of the provider's answer to its POST.
ExchangeResult(response, t) ==
    CASE response.kind = "neterr" -> Err("Token request failed: " \o response.body)
      [] response.kind = "status" ->
            Err("Token exchange failed: " \o response.status \o " - " \o response.body)
      [] OTHER ->
            Ok([access_token |-> response.body.access_token,
                refresh_token |-> response.body.refresh_token,
                expires_at |-> ExpiresAt(response.body.expires_in, t),
                token_type |-> IF IsSome(response.body.token_type)
                               THEN Unwrap(response.body.token_type) ELSE "Bearer",
                scope |-> response.body.scope])

\* exchange_code: the request it sends (none for an unregistered provider) and its result
exchange_code(code, flow, credentials, response, t) ==
    LET config == get_provider_config(flow.provider_id) IN
    IF config = None
    THEN [request |-> None, result |-> Err("Unknown provider: " \o flow.provider_id)]
    ELSE [request |-> Some([url |-> Unwrap(config).token_url,
                            form |-> ExchangeForm(code, flow, credentials)]),
          result |-> ExchangeResult(response, t)]

\* A refresh result that takes the refresh token as the response has it, none when the
\* response omits it.
RefreshResult_as_returned(refresh_token, response, t) ==
    CASE response.kind = "neterr" -> Err("Token refresh failed: " \o response.body)
      [] response.kind = "status" ->
            Err("Token refresh failed: " \o response.status \o " - " \o response.body)
      [] OTHER ->
            Ok([access_token |-> response.body.access_token,
                refresh_token |-> response.body.refresh_token,
                expires_at |-> ExpiresAt(response.body.expires_in, t),
                token_type |-> IF IsSome(response.body.token_type)
                               THEN Unwrap(response.body.token_type) ELSE "Bearer",
                scope |-> response.body.scope])

\* What refresh_tokens makes of the provider's answer to its POST.
RefreshResult(refresh_token, response, t) ==
    CASE response.kind = "neterr" -> Err("Token refresh failed: " \o response.body)
      [] response.kind = "status" ->
            Err("Token refresh failed: " \o response.status \o " - " \o response.body)
      [] OTHER ->
            Ok([access_token |-> response.body.access_token,
                refresh_token |-> IF IsSome(response.body.refresh_token)
                                  THEN response.body.refresh_token
                                  ELSE Some(refresh_token),
                expires_at |-> ExpiresAt(response.body.expires_in, t),
                token_type |-> IF IsSome(response.body.token_type)
                               THEN Unwrap(response.body.token_type) ELSE "Bearer",
                scope |-> response.body.scope])

\* The request refresh_tokens sends (none for an unregistered provider).
RefreshRequest(refresh_token, provider_id, credentials) ==
    LET config == get_provider_config(provider_id) IN
    IF config = None THEN None
    ELSE Some([url |-> Unwrap(config).token_url,
               form |-> RefreshForm(refresh_token, credentials)])

refresh_tokens(refresh_token, provider_id, credentials, response, t) ==
    IF RefreshRequest(refresh_token, provider_id, credentials) = None
    THEN Err("Unknown provider: " \o provider_id)
    ELSE RefreshResult(refresh_token, response, t)

\* ------------------------------------------------------------ the provider
AccessToken(n) == "at" \o ToString(n)
RefreshToken(n) == "rt" \o ToString(n)

\* The answers the token endpoint can give to the n-th request it grants: a refusal, or
\* a token response with or without refresh_token and expires_in.
TokenResponses(n) ==
    {[kind |-> "status", status |-> "400 Bad Request", body |-> "invalid_grant"]}
    \cup {[kind |-> "ok",
           body |-> [access_token |-> AccessToken(n),
                     refresh_token |-> rt,
                     expires_in |-> ex,
                     token_type |-> None,
                     scope |-> None]] :
            rt \in {None, Some(RefreshToken(n))},
            ex \in {None} \cup {Some(l) : l \in Lifetimes}}

\* ----------------------------------------------------------- token store
\* An is_expired that does not look at the clock: a record with an expiry is expired.
is_expired_any(store, server_id, t) ==
    IF server_id \in DOMAIN store
    THEN IsSome(store[server_id].tokens.expires_at)
    ELSE TRUE

\* An is_expired that counts a record with exactly the margin left as expired.
is_expired_inclusive(store, server_id, t) ==
    IF server_id \in DOMAIN store
    THEN IF IsSome(store[server_id].tokens.expires_at)
         THEN Unwrap(store[server_id].tokens.expires_at) <= t + EXPIRY_MARGIN_MS
         ELSE FALSE
    ELSE TRUE

\* TokenStore::is_expired at time t (ms)
is_expired(store, server_id, t) ==
    IF server_id \in DOMAIN store
    THEN IF IsSome(store[server_id].tokens.expires_at)
         THEN Unwrap(store[server_id].tokens.expires_at) < t + EXPIRY_MARGIN_MS
         ELSE FALSE
    ELSE TRUE

\* TokenStore::new
TokenStore_new == EmptyMap
has_tokens(store, server_id) == server_id \in DOMAIN store
get_tokens(store, server_id) ==
    IF server_id \in DOMAIN store THEN Some(store[server_id]) ELSE None
\* A set_tokens that keeps the record a server_id already has.
set_tokens_if_absent(store, server_id, tokens) ==
    IF server_id \in DOMAIN store THEN store ELSE MapInsert(store, server_id, tokens)
set_tokens(store, server_id, tokens) == MapInsert(store, server_id, tokens)
\* A remove that leaves the record in the map.
remove_tokens_none(store, server_id) == store
remove_tokens(store, server_id) == MapRemove(store, server_id)

\* ------------------------------------------------------------ the file format
\* JSON values: serde_json's rendering of the store and what serde reads back. An
\* object is a function from its keys, so the order of a HashMap's entries in the text
\* plays no part.
JNull == [t |-> "null"]
JStr(s) == [t |-> "string", v |-> s]
JNum(n) == [t |-> "number", v |-> n]
JArr(a) == [t |-> "array", v |-> a]
JObj(o) == [t |-> "object", v |-> o]

\* A rendering of Option<String> that writes None as the empty string.
opt_str_to_json_empty(o) == IF IsSome(o) THEN JStr(Unwrap(o)) ELSE JStr("")

\* Serialize of Option<String>, Option<i64> and Vec<String>
opt_str_to_json(o) == IF IsSome(o) THEN JStr(Unwrap(o)) ELSE JNull
opt_num_to_json(o) == IF IsSome(o) THEN JNum(Unwrap(o)) ELSE JNull
strs_to_json(l) == JArr([i \in DOMAIN l |-> JStr(l[i])])

\* #[derive(Serialize)] of OAuthTokens
tokens_to_json(tokens) ==
    JObj([access_token |-> JStr(tokens.access_token),
          refresh_token |-> opt_str_to_json(tokens.refresh_token),
          expires_at |-> opt_num_to_json(tokens.expires_at),
          token_type |-> JStr(tokens.token_type),
          scope |-> opt_str_to_json(tokens.scope)])

\* #[derive(Serialize)] of StoredTokens
stored_to_json(stored) ==
    JObj([server_id |-> JStr(stored.server_id),
          provider |-> JStr(stored.provider),
          tokens |-> tokens_to_json(stored.tokens),
          scopes |-> strs_to_json(stored.scopes),
          created_at |-> JNum(stored.created_at),
          updated_at |-> JNum(stored.updated_at)])

\* serde_json::to_string_pretty(&self) of a TokenStore
to_json(store) ==
    JObj([tokens |-> JObj([sv \in DOMAIN store |-> stored_to_json(store[sv])])])

\* Deserialize of Option<T> (null is None) and Vec<String>
opt_from_json(j) == IF j.t = "null" THEN None ELSE Some(j.v)
strs_from_json(j) == [i \in DOMAIN j.v |-> j.v[i].v]

\* #[derive(Deserialize)] of OAuthTokens
tokens_from_json(j) ==
    [access_token |-> j.v.access_token.v,
     refresh_token |-> opt_from_json(j.v.refresh_token),
     expires_at |-> opt_from_json(j.v.expires_at),
     token_type |-> j.v.token_type.v,
     scope |-> opt_from_json(j.v.scope)]

\* #[derive(Deserialize)] of StoredTokens
stored_from_json(j) ==
    [server_id |-> j.v.server_id.v,
     provider |-> j.v.provider.v,
     tokens |-> tokens_from_json(j.v.tokens),
     scopes |-> strs_from_json(j.v.scopes),
     created_at |-> j.v.created_at.v,
     updated_at |-> j.v.updated_at.v]

\* serde_json::from_str::<TokenStore> of a text that is a store's rendering
from_json(j) ==
    [sv \in DOMAIN j.v.tokens.v |-> stored_from_json(j.v.tokens.v[sv])]

\* ------------------------------------------------------------ the token file
\* The file: whether it exists, whether its text is a complete JSON document, the
\* document, and its mode.
NoFile == [exists |-> FALSE, valid |-> FALSE, tokens |-> EmptyMap, mode |-> "none"]

\* The store a file's document stands for; none in a missing or broken file.
FileStore(d) == IF d.exists /\ d.valid THEN from_json(d.tokens) ELSE EmptyMap

\* What the file system lets a load do: read the file, refuse the read, or have no
\* home directory to look in.
LoadFaults == {"none", "read_denied", "no_home"}

\* TokenStore::load of the file d
load(d, fault) ==
    IF fault = "no_home" THEN Err("Could not find home directory")
    ELSE IF ~d.exists THEN Ok(TokenStore_new)
    ELSE IF fault = "read_denied" THEN Err("Failed to read token file: denied")
    ELSE IF ~d.valid THEN Err("Failed to parse token file: EOF while parsing")
    ELSE Ok(from_json(d.tokens))

\* An init that takes the file's document whenever there is one.
init_token_store_lenient(d, fault) ==
    IF d.exists /\ d.valid THEN from_json(d.tokens) ELSE EmptyMap

\* The store init() puts in TOKEN_STORE: what load returned, or a new store when load
\* failed.
init_token_store(d, fault) ==
    IF load(d, fault).ok THEN load(d, fault).val ELSE TokenStore_new
\* The mode of the file fs::write leaves: that of the file it found, or the default of
\* a file it creates.
WrittenMode(d) == IF d.exists THEN d.mode ELSE "0644"

\* What the file system lets a save do: all of it, no write, a write cut short after
\* the file was truncated, or the write without the chmod.
SaveFaults == {"none", "write_denied", "write_cut", "chmod_denied"}

\* TokenStore::save of `store` over the file d: fs::write, then set_permissions(0o600).
save(store, d, fault) ==
    CASE fault = "write_denied" ->
            [result |-> Err("Failed to write token file: denied"), disk |-> d]
      [] fault = "write_cut" ->
            [result |-> Err("Failed to write token file: no space"),
             disk |-> [exists |-> TRUE, valid |-> FALSE, tokens |-> EmptyMap,
                       mode |-> WrittenMode(d)]]
      [] fault = "chmod_denied" ->
            [result |-> Err("Failed to set token file permissions: denied"),
             disk |-> [exists |-> TRUE, valid |-> TRUE, tokens |-> to_json(store),
                       mode |-> WrittenMode(d)]]
      [] OTHER ->
            [result |-> Ok("saved"),
             disk |-> [exists |-> TRUE, valid |-> TRUE, tokens |-> to_json(store),
                       mode |-> "0600"]]

\* A store without the lock: a guard is granted at once.
StoreLockFree_always == TRUE

\* TOKEN_STORE's RwLock: a guard is granted when no task holds the write guard. Only
\* rpc_get_tokens keeps one across an await.
StoreLockFree == storeLock = None

\* A get_access_token that refreshes whenever it can, expired or not.
get_access_token_check_eager(store, credentials, server_id, t) ==
    IF server_id \notin DOMAIN store
    THEN [kind |-> "err", err |-> "No tokens found for server: " \o server_id]
    ELSE
        LET stored == store[server_id] IN
        IF IsSome(stored.tokens.refresh_token) /\ stored.provider \in DOMAIN credentials
        THEN [kind |-> "refresh",
              request |-> Unwrap(RefreshRequest(Unwrap(stored.tokens.refresh_token),
                                                stored.provider,
                                                credentials[stored.provider]))]
        ELSE IF is_expired(store, server_id, t)
        THEN [kind |-> "err", err |-> "Token expired and no refresh token available"]
        ELSE [kind |-> "token", token |-> stored.tokens.access_token]

\* A get_access_token that hands out the stored access token of an expired record that
\* has no refresh token.
get_access_token_check_stale(store, credentials, server_id, t) ==
    IF server_id \notin DOMAIN store
    THEN [kind |-> "err", err |-> "No tokens found for server: " \o server_id]
    ELSE
        LET stored == store[server_id] IN
        IF is_expired(store, server_id, t) /\ IsSome(stored.tokens.refresh_token)
        THEN IF stored.provider \notin DOMAIN credentials
             THEN [kind |-> "err",
                   err |-> "No credentials for provider: " \o stored.provider]
             ELSE [kind |-> "refresh",
                   request |-> Unwrap(RefreshRequest(Unwrap(stored.tokens.refresh_token),
                                                     stored.provider,
                                                     credentials[stored.provider]))]
        ELSE [kind |-> "token", token |-> stored.tokens.access_token]

\* A get_access_token that, without credentials for the record's provider, reports the
\* record as one that cannot be refreshed.
get_access_token_check_unkeyed(store, credentials, server_id, t) ==
    IF server_id \notin DOMAIN store
    THEN [kind |-> "err", err |-> "No tokens found for server: " \o server_id]
    ELSE
        LET stored == store[server_id] IN
        IF is_expired(store, server_id, t)
        THEN IF IsSome(stored.tokens.refresh_token)
                /\ stored.provider \in DOMAIN credentials
             THEN [kind |-> "refresh",
                   request |-> Unwrap(RefreshRequest(Unwrap(stored.tokens.refresh_token),
                                                     stored.provider,
                                                     credentials[stored.provider]))]
             ELSE [kind |-> "err",
                   err |-> "Token expired and no refresh token available"]
        ELSE [kind |-> "token", token |-> stored.tokens.access_token]

\* get_access_token up to its first await on the network: an error, the stored access
\* token, or the refresh request it goes on to send.
get_access_token_check(store, credentials, server_id, t) ==
    IF server_id \notin DOMAIN store
    THEN [kind |-> "err", err |-> "No tokens found for server: " \o server_id]
    ELSE
        LET stored == store[server_id] IN
        IF is_expired(store, server_id, t)
        THEN IF IsSome(stored.tokens.refresh_token)
             THEN IF stored.provider \notin DOMAIN credentials
                  THEN [kind |-> "err",
                        err |-> "No credentials for provider: " \o stored.provider]
                  ELSE LET req == RefreshRequest(Unwrap(stored.tokens.refresh_token),
                                                 stored.provider,
                                                 credentials[stored.provider])
                       IN IF req = None
                          THEN [kind |-> "err",
                                err |-> "Unknown provider: " \o stored.provider]
                          ELSE [kind |-> "refresh", request |-> Unwrap(req)]
             ELSE [kind |-> "err",
                   err |-> "Token expired and no refresh token available"]
        ELSE [kind |-> "token", token |-> stored.tokens.access_token]

\* A record that keeps the old token set and only moves updated_at.
RefreshedRecord_stale(stored, new_tokens, t) ==
    [stored EXCEPT !.updated_at = t]

\* A refresh that builds the record anew: created_at becomes the time of the refresh.
RefreshedRecord_recreated(stored, new_tokens, t) ==
    [stored EXCEPT !.tokens = new_tokens, !.updated_at = t, !.created_at = t]

\* The record get_access_token puts in place of `stored` after a granted refresh.
RefreshedRecord(stored, new_tokens, t) ==
    [stored EXCEPT !.tokens = new_tokens, !.updated_at = t]

\* The record handle_token_result builds for a successful TokenResult.
StoredFromResult(result, t) ==
    [server_id |-> result.server_id,
     provider |-> result.provider,
     tokens |-> result.tokens.val,
     scopes |-> result.scopes,
     created_at |-> t,
     updated_at |-> t]

\* rpc_get_tokens's Ok value for a record
TokensReply(access_token, stored) ==
    [has_tokens |-> TRUE,
     access_token |-> access_token,
     expires_at |-> stored.tokens.expires_at,
     provider |-> stored.provider,
     scopes |-> stored.scopes]

RpcError(code, message) == Err([code |-> code, message |-> message])

\* ---------------------------------------------------------- pending flows
\* A store that registers nothing.
store_pending_flow_late(flow_map, flow) == flow_map
\* A pending map with room for one flow: storing a flow drops the others.
store_pending_flow_latest_only(flow_map, flow) ==
    [st \in {flow.state} |-> flow]
store_pending_flow(flow_map, flow) == MapInsert(flow_map, flow.state, flow)

\* A take that reads the entry and leaves it in the map (HashMap::get for remove).
take_pending_flow_get(flow_map, state) ==
    IF state \in DOMAIN flow_map
    THEN [flow |-> Some(flow_map[state]), rest |-> flow_map]
    ELSE [flow |-> None, rest |-> flow_map]

\* take_pending_flow: HashMap::remove under the write lock
take_pending_flow(flow_map, state) ==
    IF state \in DOMAIN flow_map
    THEN [flow |-> Some(flow_map[state]), rest |-> MapRemove(flow_map, state)]
    ELSE [flow |-> None, rest |-> flow_map]

Credentials(client_id, client_secret) ==
    [client_id |-> client_id, client_secret |-> client_secret]

\* ------------------------------------------------------------------ init
Idle == [pc |-> "idle"]
\* An rpc_get_tokens call: where it is and its server_id; behind (history) is the access
\* token another call's refresh for the same server_id was granted while this call
\* waited for the guard, an empty sequence in it if that refresh was not granted.
NoCall == [pc |-> "idle", server_id |-> None, behind |-> None]

\* The state after init() on a machine with no credentials file, no HARBOR_* variables
\* and no token file.
Init ==
    /\ now = 0
    /\ creds = EmptyMap
    /\ pending = EmptyMap
    /\ tokenStore = EmptyMap
    /\ storeLock = None
    /\ disk = NoFile
    /\ serverRunning = FALSE
    /\ chan = << >>
    /\ consumer = None
    /\ hs = [h \in Handlers |-> Idle]
    /\ gs = [c \in Clients |-> NoCall]
    /\ fs = [f \in Starters |-> Idle]
    /\ flows = 0
    /\ issued = 0
    /\ boundTo = EmptyMap

\* ------------------------------------------------------------------ clock
Tick ==
    /\ now < MaxTime
    /\ now' = now + 1
    /\ UNCHANGED <<creds, pending, tokenStore, storeLock, disk, serverRunning, chan,
                   consumer, hs, gs, fs, flows, issued, boundTo>>

\* ------------------------------------------------------------ credentials
\* What rpc_set_credentials returns; the write of the credentials file may fail.
rpc_set_credentials_reply(provider, file_saved) ==
    IF provider # "google" /\ provider # "github"
    THEN RpcError(-32602, "Unknown provider: " \o provider)
    ELSE IF file_saved THEN Ok([success |-> TRUE, provider |-> provider])
    ELSE RpcError(-32000, "Failed to save credentials: write failed")

\* rpc_set_credentials: the provider is validated, then set_credentials replaces the map
\* entry before it writes the file.
rpc_set_credentials(provider, client_id, client_secret) ==
    /\ provider = "google" \/ provider = "github"
    /\ creds' = MapInsert(creds, provider, Credentials(client_id, client_secret))
    /\ UNCHANGED <<now, pending, tokenStore, storeLock, disk, serverRunning, chan,
                   consumer, hs, gs, fs, flows, issued, boundTo>>

\* rpc_remove_credentials: remove_credentials drops the map entry before it writes the file.
rpc_remove_credentials(provider) ==
    /\ creds' = MapRemove(creds, provider)
    /\ UNCHANGED <<now, pending, tokenStore, storeLock, disk, serverRunning, chan,
                   consumer, hs, gs, fs, flows, issued, boundTo>>

get_credentials(credentials, provider_id) ==
    IF provider_id \in DOMAIN credentials THEN Some(credentials[provider_id]) ELSE None

\* ------------------------------------------------------------- flow start
StartParams ==
    [provider : {None} \cup {Some(p) : p \in ProviderIds},
     server_id : {None} \cup {Some(s) : s \in Servers},
     scopes : ScopeLists]

\* rpc_start_flow up to store_pending_flow: the RpcError it returns, or the URL and flow
\* start_flow made with the n-th random draw.
rpc_start_flow_check(params, credentials, n, t) ==
    IF params.provider = None THEN RpcError(-32602, "Missing 'provider' parameter")
    ELSE IF params.server_id = None THEN RpcError(-32602, "Missing 'server_id' parameter")
    ELSE IF Len(params.scopes) = 0
    THEN RpcError(-32602, "Missing or empty 'scopes' parameter")
    ELSE IF get_credentials(credentials, Unwrap(params.provider)) = None
    THEN RpcError(-32000, "OAuth provider '" \o Unwrap(params.provider)
                          \o "' is not configured")
    ELSE LET started == start_flow(Unwrap(params.provider), Unwrap(params.server_id),
                                   params.scopes,
                                   Unwrap(get_credentials(credentials,
                                                          Unwrap(params.provider))),
                                   StateOf(n), VerifierOf(n), t)
         IN IF started.ok THEN started
            ELSE RpcError(-32000, "Failed to start OAuth flow: " \o started.err)

\* rpc_start_flow, to its error return or to the await of ensure_server_running, while
\* fewer than max flows have been started
rpc_start_flow_begin_upto(f, params, max) ==
    /\ fs[f].pc = "idle"
    /\ LET r == rpc_start_flow_check(params, creds, flows + 1, NowMs) IN
       IF r.ok
       THEN /\ flows < max
            /\ flows' = flows + 1
            /\ pending' = store_pending_flow(pending, r.val.flow)
            /\ fs' = [fs EXCEPT ![f] = [pc |-> "ensure",
                                        auth_url |-> r.val.auth_url,
                                        state |-> r.val.flow.state]]
       ELSE UNCHANGED <<flows, pending, fs>>
    /\ UNCHANGED <<now, creds, tokenStore, storeLock, disk, serverRunning, chan,
                   consumer, hs, gs, issued, boundTo>>

rpc_start_flow_begin(f, params) == rpc_start_flow_begin_upto(f, params, MaxFlows)

BindOutcomes == {"bound", "in_use", "denied"}

\* An ensure_server_running that sets SERVER_RUNNING before it binds.
ensure_server_running_sticky(running, bind) ==
    IF running THEN [running |-> TRUE, result |-> Ok("running"), bound |-> FALSE]
    ELSE IF bind = "bound" THEN [running |-> TRUE, result |-> Ok("started"), bound |-> TRUE]
    ELSE [running |-> TRUE, bound |-> FALSE,
          result |-> Err("Failed to bind to port " \o ToString(OAUTH_PORT))]

\* An ensure_server_running that does not look at SERVER_RUNNING.
ensure_server_running_unguarded(running, bind) ==
    IF bind = "bound" THEN [running |-> TRUE, result |-> Ok("started"), bound |-> TRUE]
    ELSE [running |-> FALSE, bound |-> FALSE,
          result |-> Err("Failed to bind to port " \o ToString(OAUTH_PORT))]

\* ensure_server_running: the flag it leaves and its result, given what bind returns.
\* The write guard of SERVER_RUNNING is held from the check to the return.
ensure_server_running(running, bind) ==
    IF running THEN [running |-> TRUE, result |-> Ok("running"), bound |-> FALSE]
    ELSE IF bind = "bound" THEN [running |-> TRUE, result |-> Ok("started"), bound |-> TRUE]
    ELSE IF bind = "in_use"
    THEN [running |-> FALSE, bound |-> FALSE,
          result |-> Err("Port " \o ToString(OAUTH_PORT)
                         \o " is already in use. Another OAuth flow may be in progress.")]
    ELSE [running |-> FALSE, bound |-> FALSE,
          result |-> Err("Failed to bind to port " \o ToString(OAUTH_PORT)
                         \o ": permission denied")]

\* What rpc_start_flow returns after ensure_server_running
rpc_start_flow_reply(call, ensured) ==
    IF ensured.result.ok
    THEN Ok([auth_url |-> call.auth_url, state |-> call.state])
    ELSE RpcError(-32000, "Failed to start OAuth callback server: " \o ensured.result.err)

\* rpc_start_flow from ensure_server_running to its return
rpc_start_flow_ensure(f, bind) ==
    /\ fs[f].pc = "ensure"
    /\ serverRunning => bind = "bound"
    /\ LET e == ensure_server_running(serverRunning, bind) IN
       /\ serverRunning' = e.running
       /\ IF e.bound
          THEN chan' = << >> /\ consumer' = None
          ELSE UNCHANGED <<chan, consumer>>
    /\ fs' = [fs EXCEPT ![f] = Idle]
    /\ UNCHANGED <<now, creds, pending, tokenStore, storeLock, disk, hs, gs, flows,
                   issued, boundTo>>

\* --------------------------------------------------------------- callback
CallbackParams ==
    [code : {None} \cup {Some(c) : c \in Codes},
     state : {None} \cup {Some(s) : s \in States},
     error : {None, Some("access_denied")}]

Page(title, message) == [title |-> title, message |-> message]

\* A handle_callback that answers an unknown state as it answers a missing one.
handle_callback_take_conflated(params, flow_map) ==
    IF IsSome(params.error)
    THEN [page |-> Some(Page("Authorization Failed", Unwrap(params.error))),
          flow |-> None, rest |-> flow_map]
    ELSE IF params.code = None \/ params.state = None
            \/ Unwrap(params.state) \notin DOMAIN flow_map
    THEN [page |-> Some(Page("Invalid Request",
                             "Missing authorization code or state parameter.")),
          flow |-> None, rest |-> flow_map]
    ELSE [page |-> None, flow |-> Some(flow_map[Unwrap(params.state)]),
          rest |-> MapRemove(flow_map, Unwrap(params.state))]

\* A handle_callback that takes the flow of its state before it looks at the error
\* parameter and the code.
handle_callback_take_first(params, flow_map) ==
    LET taken == IF params.state = None THEN [flow |-> None, rest |-> flow_map]
                 ELSE take_pending_flow(flow_map, Unwrap(params.state))
    IN
    IF IsSome(params.error)
    THEN [page |-> Some(Page("Authorization Failed", Unwrap(params.error))),
          flow |-> None, rest |-> taken.rest]
    ELSE IF params.code = None \/ params.state = None
    THEN [page |-> Some(Page("Invalid Request",
                             "Missing authorization code or state parameter.")),
          flow |-> None, rest |-> taken.rest]
    ELSE IF taken.flow = None
    THEN [page |-> Some(Page("Session Expired",
                   "This authorization session has expired. Please try again.")),
          flow |-> None, rest |-> taken.rest]
    ELSE [page |-> None, flow |-> taken.flow, rest |-> taken.rest]

\* handle_callback to the return of take_pending_flow: the error page it answers with,
\* or the flow it took, and the pending map it leaves.
handle_callback_take(params, flow_map) ==
    IF IsSome(params.error)
    THEN [page |-> Some(Page("Authorization Failed", Unwrap(params.error))),
          flow |-> None, rest |-> flow_map]
    ELSE IF params.code = None \/ params.state = None
    THEN [page |-> Some(Page("Invalid Request",
                             "Missing authorization code or state parameter.")),
          flow |-> None, rest |-> flow_map]
    ELSE LET taken == take_pending_flow(flow_map, Unwrap(params.state)) IN
         IF taken.flow = None
         THEN [page |-> Some(Page("Session Expired",
                        "This authorization session has expired. Please try again.")),
               flow |-> None, rest |-> taken.rest]
         ELSE [page |-> None, flow |-> taken.flow, rest |-> taken.rest]

\* A callback request arrives at the listener: handle_callback to its error page or to
\* the flow take_pending_flow returned.
handle_callback_begin(h, params) ==
    /\ serverRunning
    /\ hs[h].pc = "idle"
    /\ LET r == handle_callback_take(params, pending) IN
       /\ pending' = r.rest
       /\ hs' = [hs EXCEPT ![h] = IF r.flow = None THEN Idle
                                  ELSE [pc |-> "exchange",
                                        code |-> Unwrap(params.code),
                                        flow |-> Unwrap(r.flow)]]
    /\ UNCHANGED <<now, creds, tokenStore, storeLock, disk, serverRunning, chan,
                   consumer, fs, gs, flows, issued, boundTo>>

\* handle_callback without credentials for the flow's provider: the page, and nothing sent
handle_callback_unconfigured(h) ==
    /\ hs[h].pc = "exchange"
    /\ get_credentials(creds, hs[h].flow.provider_id) = None
    /\ hs' = [hs EXCEPT ![h] = Idle]
    /\ UNCHANGED <<now, creds, pending, tokenStore, storeLock, disk, serverRunning, chan,
                   consumer, fs, gs, flows, issued, boundTo>>

GrantedFor(server_id, provider, scopes) ==
    [server_id |-> server_id, provider |-> provider, scopes |-> scopes]

\* A handle_callback that sends the token request again when the provider refuses it.
handle_callback_exchange_retry(h, response) ==
    /\ hs[h].pc = "exchange"
    /\ get_credentials(creds, hs[h].flow.provider_id) # None
    /\ response.kind = "ok" => issued < MaxIssue
    /\ LET flow == hs[h].flow
           x == exchange_code(hs[h].code, flow,
                              Unwrap(get_credentials(creds, flow.provider_id)),
                              response, NowMs)
       IN
       /\ issued' = IF x.result.ok THEN issued + 1 ELSE issued
       /\ boundTo' = IF x.result.ok
                     THEN MapInsert(boundTo, x.result.val.access_token,
                                    GrantedFor(flow.server_id, flow.provider_id, flow.scopes))
                     ELSE boundTo
       /\ hs' = IF x.result.ok
                THEN [hs EXCEPT ![h] = [pc |-> "send", flow |-> flow, tokens |-> x.result]]
                ELSE hs
    /\ UNCHANGED <<now, creds, pending, tokenStore, storeLock, disk, serverRunning, chan,
                   consumer, fs, gs, flows>>

\* handle_callback: get_credentials, then exchange_code and the provider's answer.
handle_callback_exchange(h, response) ==
    /\ hs[h].pc = "exchange"
    /\ get_credentials(creds, hs[h].flow.provider_id) # None
    /\ response.kind = "ok" => issued < MaxIssue
    /\ LET flow == hs[h].flow
           x == exchange_code(hs[h].code, flow,
                              Unwrap(get_credentials(creds, flow.provider_id)),
                              response, NowMs)
       IN
       /\ issued' = IF x.result.ok THEN issued + 1 ELSE issued
       /\ boundTo' = IF x.result.ok
                     THEN MapInsert(boundTo, x.result.val.access_token,
                                    GrantedFor(flow.server_id, flow.provider_id, flow.scopes))
                     ELSE boundTo
       /\ hs' = [hs EXCEPT ![h] = [pc |-> "send", flow |-> flow, tokens |-> x.result]]
    /\ UNCHANGED <<now, creds, pending, tokenStore, storeLock, disk, serverRunning, chan,
                   consumer, fs, gs, flows>>

\* An outcome addressed by the flow's provider in place of its server_id.
TokenResult_by_provider(flow, tokens) ==
    [server_id |-> flow.provider_id,
     tokens |-> tokens,
     provider |-> flow.provider_id,
     scopes |-> flow.scopes]

\* The TokenResult handle_callback sends for a flow and the result of its exchange.
TokenResult(flow, tokens) ==
    [server_id |-> flow.server_id,
     tokens |-> tokens,
     provider |-> flow.provider_id,
     scopes |-> flow.scopes]

\* The page handle_callback ends with after the exchange
ExchangePage(tokens) ==
    IF tokens.ok
    THEN Page("Authorization Successful", "You can close this window and return to Harbor.")
    ELSE Page("Authorization Failed", tokens.err)

\* A handle_callback that publishes into a channel without a capacity.
handle_callback_send_unbounded(h) ==
    /\ hs[h].pc = "send"
    /\ chan' = Append(chan, TokenResult(hs[h].flow, hs[h].tokens))
    /\ hs' = [hs EXCEPT ![h] = Idle]
    /\ UNCHANGED <<now, creds, pending, tokenStore, storeLock, disk, serverRunning,
                   consumer, fs, gs, flows, issued, boundTo>>

\* handle_callback: token_sender.send(..).await, which waits while the channel is full,
\* then the page.
handle_callback_send(h) ==
    /\ hs[h].pc = "send"
    /\ Len(chan) < CHANNEL_CAPACITY
    /\ chan' = Append(chan, TokenResult(hs[h].flow, hs[h].tokens))
    /\ hs' = [hs EXCEPT ![h] = Idle]
    /\ UNCHANGED <<now, creds, pending, tokenStore, storeLock, disk, serverRunning,
                   consumer, fs, gs, flows, issued, boundTo>>

\* ------------------------------------------------------ the consumer task
\* A token handler task that receives the newest TokenResult in the channel.
token_handler_recv_newest ==
    /\ serverRunning
    /\ consumer = None
    /\ chan # << >>
    /\ chan' = SubSeq(chan, 1, Len(chan) - 1)
    /\ consumer' = IF chan[Len(chan)].tokens.ok THEN Some(chan[Len(chan)]) ELSE None
    /\ UNCHANGED <<now, creds, pending, tokenStore, storeLock, disk, serverRunning,
                   hs, gs, fs, flows, issued, boundTo>>

\* The token handler task: rx.recv() returns the oldest TokenResult; handle_token_result
\* logs a failed exchange at once and otherwise waits for the store's write guard.
token_handler_recv ==
    /\ serverRunning
    /\ consumer = None
    /\ chan # << >>
    /\ chan' = Tail(chan)
    /\ consumer' = IF Head(chan).tokens.ok THEN Some(Head(chan)) ELSE None
    /\ UNCHANGED <<now, creds, pending, tokenStore, storeLock, disk, serverRunning,
                   hs, gs, fs, flows, issued, boundTo>>

\* handle_token_result with the write guard: set_tokens and save; a failed save is logged.
handle_token_result(fault) ==
    /\ consumer # None
    /\ StoreLockFree
    /\ LET result == Unwrap(consumer)
           stored == StoredFromResult(result, NowMs)
       IN
       /\ tokenStore' = set_tokens(tokenStore, result.server_id, stored)
       /\ disk' = save(set_tokens(tokenStore, result.server_id, stored), disk, fault).disk
    /\ consumer' = None
    /\ UNCHANGED <<now, creds, pending, storeLock, serverRunning, chan, hs, gs, fs,
                   flows, issued, boundTo>>

\* handle_token_result as other processes see the file: first set_tokens and the
\* fs::write of save, the write guard held,
handle_token_result_write ==
    /\ consumer # None
    /\ StoreLockFree
    /\ LET result == Unwrap(consumer)
           stored == StoredFromResult(result, NowMs)
       IN
       /\ tokenStore' = set_tokens(tokenStore, result.server_id, stored)
       /\ disk' = save(set_tokens(tokenStore, result.server_id, stored), disk,
                       "chmod_denied").disk
    /\ storeLock' = Some("token_handler")
    /\ UNCHANGED <<now, creds, pending, serverRunning, chan, consumer, hs, gs, fs,
                   flows, issued, boundTo>>

\* then the set_permissions of save and the return, which drops the guard.
handle_token_result_chmod ==
    /\ storeLock = Some("token_handler")
    /\ disk' = save(tokenStore, disk, "none").disk
    /\ storeLock' = None
    /\ consumer' = None
    /\ UNCHANGED <<now, creds, pending, tokenStore, serverRunning, chan, hs, gs, fs,
                   flows, issued, boundTo>>

\* ---------------------------------------------------------- rpc_get_tokens
MissingServerId == RpcError(-32602, "Missing 'server_id' parameter")

\* rpc_get_tokens is called with a server_id: the call waits for the store's write guard.
\* (Without one it returns MissingServerId and touches nothing.)
rpc_get_tokens_call(c, server_id) ==
    /\ gs[c].pc = "idle"
    /\ gs' = [gs EXCEPT ![c] = [NoCall EXCEPT !.pc = "waiting",
                                               !.server_id = Some(server_id)]]
    /\ UNCHANGED <<now, creds, pending, tokenStore, storeLock, disk, serverRunning, chan,
                   consumer, hs, fs, flows, issued, boundTo>>

\* What rpc_get_tokens returns when get_access_token needs no refresh
rpc_get_tokens_reply(store, credentials, server_id, t) ==
    LET check == get_access_token_check(store, credentials, server_id, t) IN
    IF ~has_tokens(store, server_id) THEN Ok([has_tokens |-> FALSE])
    ELSE IF check.kind = "token" THEN Ok(TokensReply(check.token, store[server_id]))
    ELSE IF check.kind = "err"
    THEN RpcError(-32000, "Failed to get access token: " \o check.err)
    ELSE None

\* An rpc_get_tokens that drops the write guard while it awaits the provider's answer
\* and takes it again to put the refreshed record in place.
rpc_get_tokens_begin_unlocked(c) ==
    /\ gs[c].pc = "waiting"
    /\ StoreLockFree
    /\ LET server_id == Unwrap(gs[c].server_id)
           reply == rpc_get_tokens_reply(tokenStore, creds, server_id, NowMs)
       IN
       IF reply = None
       THEN gs' = [gs EXCEPT ![c].pc = "refreshing", ![c].behind = None]
       ELSE gs' = [gs EXCEPT ![c] = NoCall]
    /\ UNCHANGED <<now, creds, pending, tokenStore, storeLock, disk, serverRunning, chan,
                   consumer, hs, fs, flows, issued, boundTo>>

\* rpc_get_tokens with the write guard, to its return or to the refresh request of
\* get_access_token, which it awaits holding the guard.
rpc_get_tokens_begin(c) ==
    /\ gs[c].pc = "waiting"
    /\ StoreLockFree
    /\ LET server_id == Unwrap(gs[c].server_id)
           reply == rpc_get_tokens_reply(tokenStore, creds, server_id, NowMs)
       IN
       IF reply = None
       THEN /\ storeLock' = Some(c)
            /\ gs' = [gs EXCEPT ![c].pc = "refreshing", ![c].behind = None]
       ELSE /\ gs' = [gs EXCEPT ![c] = NoCall]
            /\ UNCHANGED storeLock
    /\ UNCHANGED <<now, creds, pending, tokenStore, disk, serverRunning, chan, consumer,
                   hs, fs, flows, issued, boundTo>>

\* get_access_token after the provider answered its refresh request: the store it
\* leaves, the file save leaves, and what rpc_get_tokens returns.
get_access_token_refreshed(store, d, server_id, response, fault, t) ==
    LET stored == store[server_id]
        new_tokens == RefreshResult(Unwrap(stored.tokens.refresh_token), response, t)
    IN
    IF ~new_tokens.ok
    THEN [store |-> store, disk |-> d, granted |-> None,
          reply |-> RpcError(-32000, "Failed to get access token: " \o new_tokens.err)]
    ELSE LET updated == RefreshedRecord(stored, new_tokens.val, t)
             saved == save(MapInsert(store, server_id, updated), d, fault)
         IN [store |-> MapInsert(store, server_id, updated),
             disk |-> saved.disk,
             granted |-> Some(new_tokens.val.access_token),
             reply |-> IF saved.result.ok
                       THEN Ok(TokensReply(updated.tokens.access_token, updated))
                       ELSE RpcError(-32000,
                                "Failed to get access token: " \o saved.result.err)]

\* An rpc_get_tokens that returns from a refresh without dropping the write guard.
rpc_get_tokens_finish_keeps_guard(c, response, fault) ==
    /\ gs[c].pc = "refreshing"
    /\ response.kind = "ok" => issued < MaxIssue
    /\ response.kind # "ok" => fault = "none"
    /\ LET server_id == Unwrap(gs[c].server_id)
           r == get_access_token_refreshed(tokenStore, disk, server_id, response, fault,
                                           NowMs)
       IN
       /\ tokenStore' = r.store
       /\ disk' = r.disk
       /\ issued' = IF IsSome(r.granted) THEN issued + 1 ELSE issued
       /\ boundTo' = IF IsSome(r.granted)
                     THEN MapInsert(boundTo, Unwrap(r.granted),
                                    GrantedFor(server_id, tokenStore[server_id].provider,
                                               tokenStore[server_id].scopes))
                     ELSE boundTo
       /\ gs' = [gs EXCEPT ![c] = NoCall]
    /\ UNCHANGED <<now, creds, pending, storeLock, serverRunning, chan, consumer, hs, fs,
                   flows>>

\* rpc_get_tokens from the provider's answer to its return, which drops the guard.
rpc_get_tokens_finish(c, response, fault) ==
    /\ gs[c].pc = "refreshing"
    /\ response.kind = "ok" => issued < MaxIssue
    /\ response.kind # "ok" => fault = "none"
    /\ LET server_id == Unwrap(gs[c].server_id)
           r == get_access_token_refreshed(tokenStore, disk, server_id, response, fault,
                                           NowMs)
       IN
       /\ tokenStore' = r.store
       /\ disk' = r.disk
       /\ issued' = IF IsSome(r.granted) THEN issued + 1 ELSE issued
       /\ boundTo' = IF IsSome(r.granted)
                     THEN MapInsert(boundTo, Unwrap(r.granted),
                                    GrantedFor(server_id, tokenStore[server_id].provider,
                                               tokenStore[server_id].scopes))
                     ELSE boundTo
       /\ gs' = [d \in Clients |->
                   IF d = c THEN NoCall
                   ELSE IF gs[d].pc = "waiting" /\ gs[d].server_id = gs[c].server_id
                   THEN [gs[d] EXCEPT !.behind = Some(r.granted)]
                   ELSE gs[d]]
    /\ storeLock' = None
    /\ UNCHANGED <<now, creds, pending, serverRunning, chan, consumer, hs, fs, flows>>

\* ------------------------------------------------------ status and revoke
\* What rpc_status returns for a server_id
StatusReply(store, server_id, t) ==
    IF server_id \in DOMAIN store
    THEN Ok([authenticated |-> TRUE,
             provider |-> store[server_id].provider,
             scopes |-> store[server_id].scopes,
             is_expired |-> IF IsSome(store[server_id].tokens.expires_at)
                            THEN Unwrap(store[server_id].tokens.expires_at)
                                 < t + EXPIRY_MARGIN_MS
                            ELSE FALSE,
             expires_at |-> store[server_id].tokens.expires_at,
             has_refresh_token |-> IsSome(store[server_id].tokens.refresh_token)])
    ELSE Ok([authenticated |-> FALSE])

\* rpc_status with a server_id: a read of the store under its read guard
rpc_status(server_id) ==
    /\ StoreLockFree
    /\ StatusReply(tokenStore, server_id, NowMs).ok
    /\ UNCHANGED vars

\* An rpc_revoke that returns the error of a failed save.
rpc_revoke_reply_strict(server_id, saved) ==
    IF server_id = None THEN MissingServerId
    ELSE IF saved.ok THEN Ok([success |-> TRUE])
    ELSE RpcError(-32000, "Failed to save token store after revoke: " \o saved.err)

\* What rpc_revoke returns, given its server_id parameter and the result of its save
rpc_revoke_reply(server_id, saved) ==
    IF server_id = None THEN MissingServerId
    ELSE Ok([success |-> TRUE])

\* rpc_revoke with a server_id, under the write guard: remove_tokens and save; a failed
\* save is logged and success returned.
rpc_revoke(server_id, fault) ==
    /\ StoreLockFree
    /\ tokenStore' = remove_tokens(tokenStore, server_id)
    /\ disk' = save(remove_tokens(tokenStore, server_id), disk, fault).disk
    /\ UNCHANGED <<now, creds, pending, storeLock, serverRunning, chan, consumer, hs, gs,
                   fs, flows, issued, boundTo>>

\* ------------------------------------------------------------------- next
\* The answers of the token endpoint the authorization side tells apart: a refusal and
\* a grant (with a refresh token and a lifetime).
ExchangeResponses(n) ==
    {r \in TokenResponses(n) :
        r.kind = "ok" => IsSome(r.body.refresh_token) /\ IsSome(r.body.expires_in)}

\* The authorization side: credentials, flow starts, the listener with two callback
\* requests at a time, the outcome channel and its consumer, status and revoke.
Next ==
    \/ Tick
    \/ \E p \in ProviderIds : rpc_set_credentials(p, "cid1", "sec1")
    \/ \E p \in ProviderIds : rpc_remove_credentials(p)
    \/ \E f \in Starters, p \in StartParams : rpc_start_flow_begin(f, p)
    \/ \E f \in Starters, b \in BindOutcomes : rpc_start_flow_ensure(f, b)
    \/ \E h \in Handlers, p \in CallbackParams : handle_callback_begin(h, p)
    \/ \E h \in Handlers : handle_callback_unconfigured(h)
    \/ \E h \in Handlers, r \in ExchangeResponses(issued + 1) :
          handle_callback_exchange(h, r)
    \/ \E h \in Handlers : handle_callback_send(h)
    \/ token_handler_recv
    \/ \E o \in {"none", "write_denied"} : handle_token_result(o)
    \/ \E s \in Servers : rpc_status(s)
    \/ \E s \in Servers : rpc_revoke(s, "none")

Spec == Init /\ [][Next]_vars

\* ------------------------------------------------------------ the store side
\* A record init() finds in the token file: granted at time 0 for Lifetimes, with or
\* without a refresh token.
LoadedRecord(server_id, refresh_token) ==
    [server_id |-> server_id,
     provider |-> "google",
     tokens |-> [access_token |-> AccessToken(0),
                 refresh_token |-> refresh_token,
                 expires_at |-> Some(90 * 1000),
                 token_type |-> "Bearer",
                 scope |-> None],
     scopes |-> <<"scope.a", "scope.b">>,
     created_at |-> 0,
     updated_at |-> 0]

TokenFiles ==
    {[exists |-> TRUE, valid |-> TRUE, mode |-> "0600",
      tokens |-> to_json([s \in {"srv1"} |-> LoadedRecord(s, rt)])] :
        rt \in {None, Some(RefreshToken(0))}}

\* The state after init() on a machine with HARBOR_GOOGLE_CLIENT_ID and _SECRET set and
\* a token file an earlier run left.
StoreInit ==
    /\ now = 0
    /\ creds = [p \in {"google"} |-> Credentials("cid1", "sec1")]
    /\ pending = EmptyMap
    /\ disk \in TokenFiles
    /\ tokenStore = init_token_store(disk, "none")
    /\ storeLock = None
    /\ serverRunning = FALSE
    /\ chan = << >>
    /\ consumer = None
    /\ hs = [h \in Handlers |-> Idle]
    /\ gs = [c \in Clients |-> NoCall]
    /\ fs = [f \in Starters |-> Idle]
    /\ flows = 0
    /\ issued = 0
    /\ boundTo = [a \in {AccessToken(0)} |->
                    GrantedFor("srv1", "google", <<"scope.a", "scope.b">>)]

GoogleStart(server_id) ==
    [provider |-> Some("google"), server_id |-> Some(server_id),
     scopes |-> <<"scope.a", "scope.b">>]

\* The store side: two rpc_get_tokens calls at a time with every answer of the token
\* endpoint, status, revoke, credential changes, and one flow at a time through the
\* listener to the consumer.
StoreNext ==
    \/ Tick
    \/ rpc_set_credentials("google", "cid1", "sec1")
    \/ rpc_remove_credentials("google")
    \/ \E s \in Servers : rpc_start_flow_begin("f1", GoogleStart(s))
    \/ rpc_start_flow_ensure("f1", "bound")
    \/ \E st \in States :
          handle_callback_begin("h1", [code |-> Some("code1"), state |-> Some(st),
                                       error |-> None])
    \/ handle_callback_unconfigured("h1")
    \/ \E r \in {x \in ExchangeResponses(issued + 1) : x.kind = "ok"} :
          handle_callback_exchange("h1", r)
    \/ handle_callback_send("h1")
    \/ token_handler_recv
    \/ handle_token_result("none")
    \/ \E c \in Clients, s \in Servers : rpc_get_tokens_call(c, s)
    \/ \E c \in Clients : rpc_get_tokens_begin(c)
    \/ \E c \in Clients, r \in TokenResponses(issued + 1),
          o \in {"none", "write_denied"} : rpc_get_tokens_finish(c, r, o)
    \/ \E s \in Servers : rpc_status(s)
    \/ \E s \in Servers : rpc_revoke(s, "none")

StoreSpec == StoreInit /\ [][StoreNext]_vars

\* ------------------------------------------------- from exchange to store
\* Flows through the listener to the consumer, with an rpc_get_tokens caller and
\* revokes contending for the store.
LiveNext ==
    \/ Tick
    \/ \E s \in Servers : rpc_start_flow_begin("f1", GoogleStart(s))
    \/ rpc_start_flow_ensure("f1", "bound")
    \/ \E st \in States :
          handle_callback_begin("h1", [code |-> Some("code1"), state |-> Some(st),
                                       error |-> None])
    \/ \E r \in ExchangeResponses(issued + 1) : handle_callback_exchange("h1", r)
    \/ handle_callback_send("h1")
    \/ token_handler_recv
    \/ handle_token_result("none")
    \/ \E s \in Servers : rpc_get_tokens_call("g1", s)
    \/ rpc_get_tokens_begin("g1")
    \/ \E r \in ExchangeResponses(issued + 1) : rpc_get_tokens_finish("g1", r, "none")
    \/ \E s \in Servers : rpc_revoke(s, "none")

\* The scheduling the runtime gives: a handler whose send can complete completes it,
\* the consumer task receives what is queued, the provider answers a refresh request,
\* and the consumer waiting for the store's write guard is granted it when the guard
\* is released (tokio's RwLock queues its waiters in order).
LiveSpec ==
    /\ StoreInit
    /\ [][LiveNext]_vars
    /\ WF_vars(handle_callback_send("h1"))
    /\ WF_vars(token_handler_recv)
    /\ SF_vars(handle_token_result("none"))
    /\ WF_vars(\E r \in ExchangeResponses(issued + 1) :
                  rpc_get_tokens_finish("g1", r, "none"))

\* The same steps with the scheduling the process itself gives and no more: nothing
\* in the process makes the provider answer a token request, and neither exchange_code
\* nor refresh_tokens bounds the wait for the answer.
HungSpec ==
    /\ StoreInit
    /\ [][LiveNext]_vars
    /\ WF_vars(handle_callback_send("h1"))
    /\ WF_vars(token_handler_recv)
    /\ SF_vars(handle_token_result("none"))

\* ------------------------------------------------------------ all the tasks
\* Every kind of task at once: credential set and remove, a flow start with every
\* outcome of the bind, a callback handler, the consumer task, an rpc_get_tokens call,
\* status and revoke.
TaskNext ==
    \/ Tick
    \/ rpc_set_credentials("google", "cid1", "sec1")
    \/ rpc_remove_credentials("google")
    \/ rpc_start_flow_begin("f1", GoogleStart("srv1"))
    \/ \E b \in BindOutcomes : rpc_start_flow_ensure("f1", b)
    \/ \E st \in States :
          handle_callback_begin("h1", [code |-> Some("code1"), state |-> Some(st),
                                       error |-> None])
    \/ handle_callback_unconfigured("h1")
    \/ \E r \in ExchangeResponses(issued + 1) : handle_callback_exchange("h1", r)
    \/ handle_callback_send("h1")
    \/ token_handler_recv
    \/ handle_token_result("none")
    \/ rpc_get_tokens_call("g1", "srv1")
    \/ rpc_get_tokens_begin("g1")
    \/ \E r \in ExchangeResponses(issued + 1) : rpc_get_tokens_finish("g1", r, "none")
    \/ rpc_status("srv1")
    \/ rpc_revoke("srv1", "none")

\* The scheduling the runtime gives, and the provider's answers: the bind returns; the
\* handler goes on from its credentials lookup, and the provider answers its exchange
\* request; a send that can complete completes; the consumer task receives what is
\* queued; the provider answers a refresh request; and a task that waits for the
\* store's write guard is granted it when the guard is released (tokio's RwLock queues
\* its waiters in order).
TaskSpec ==
    /\ StoreInit
    /\ [][TaskNext]_vars
    /\ WF_vars(\E b \in BindOutcomes : rpc_start_flow_ensure("f1", b))
    /\ WF_vars(\/ handle_callback_unconfigured("h1")
               \/ \E r \in ExchangeResponses(issued + 1) : handle_callback_exchange("h1", r))
    /\ WF_vars(handle_callback_send("h1"))
    /\ WF_vars(token_handler_recv)
    /\ SF_vars(handle_token_result("none"))
    /\ SF_vars(rpc_get_tokens_begin("g1"))
    /\ WF_vars(\E r \in ExchangeResponses(issued + 1) :
                  rpc_get_tokens_finish("g1", r, "none"))

\* ------------------------------------------------------ the full channel
\* The oldest flow that is pending
OldestPending ==
    StateOf(CHOOSE n \in 1..flows :
                /\ StateOf(n) \in DOMAIN pending
                /\ \A m \in 1..(n - 1) : StateOf(m) \notin DOMAIN pending)

\* Flows enough to fill the outcome channel: callbacks arrive in the order of their
\* flows at two handlers, whose exchanges are granted or refused, while the consumer
\* task receives and stores.
ChannelNext ==
    \/ rpc_start_flow_begin_upto("f1", GoogleStart("srv1"), MaxQueuedFlows)
    \/ rpc_start_flow_ensure("f1", "bound")
    \/ \E h \in Handlers :
          /\ pending # EmptyMap
          /\ handle_callback_begin(h, [code |-> Some("code1"),
                                       state |-> Some(OldestPending), error |-> None])
    \/ \E h \in Handlers, r \in {x \in ExchangeResponses(1) : x.kind = "ok" => issued = 0} :
          handle_callback_exchange(h, r)
    \/ \E h \in Handlers : handle_callback_send(h)
    \/ token_handler_recv
    \/ handle_token_result("none")

\* The state after init() over a token file with one record
ChannelInit ==
    /\ StoreInit
    /\ disk.tokens = to_json([s \in {"srv1"} |-> LoadedRecord(s, None)])

\* The scheduling the runtime gives: the consumer task receives what is queued and gets
\* the store's write guard, and a handler waiting in send gets the room that is made
\* (the channel's semaphore serves its waiters in order, so a waiting send is not
\* overtaken for ever).
ChannelSpec ==
    /\ ChannelInit
    /\ [][ChannelNext]_vars
    /\ \A h \in Handlers : SF_vars(handle_callback_send(h))
    /\ WF_vars(token_handler_recv)
    /\ SF_vars(handle_token_result("none"))

\* ------------------------------------------------------- expiry on read
\* The expiry a record in the token file may carry: none, the start of the epoch, and
\* the values around the expiry margin from each time the clock reaches.
ExpiryValues ==
    {None, Some(0)}
    \cup {Some(m * TickMs + EXPIRY_MARGIN_MS + d) : m \in 0..MaxTime, d \in {-1, 0, 1}}

ExpiryRecord(server_id, expires_at) ==
    [LoadedRecord(server_id, Some(RefreshToken(0))) EXCEPT !.tokens.expires_at = expires_at]

ExpiryFiles ==
    {[exists |-> TRUE, valid |-> TRUE, mode |-> "0600",
      tokens |-> to_json([s \in {"srv1"} |-> ExpiryRecord(s, e)])] : e \in ExpiryValues}

\* The state after init() with credentials in the environment and a token file whose
\* record has any of ExpiryValues.
ExpiryInit ==
    /\ now = 0
    /\ creds = [p \in {"google"} |-> Credentials("cid1", "sec1")]
    /\ pending = EmptyMap
    /\ disk \in ExpiryFiles
    /\ tokenStore = init_token_store(disk, "none")
    /\ storeLock = None
    /\ serverRunning = FALSE
    /\ chan = << >>
    /\ consumer = None
    /\ hs = [h \in Handlers |-> Idle]
    /\ gs = [c \in Clients |-> NoCall]
    /\ fs = [f \in Starters |-> Idle]
    /\ flows = 0
    /\ issued = 0
    /\ boundTo = [a \in {AccessToken(0)} |->
                    GrantedFor("srv1", "google", <<"scope.a", "scope.b">>)]

\* The readers of a record's expiry: rpc_get_tokens with its refresh, rpc_status, and
\* revoke, as the clock moves.
ExpiryNext ==
    \/ Tick
    \/ \E c \in Clients, s \in Servers : rpc_get_tokens_call(c, s)
    \/ \E c \in Clients : rpc_get_tokens_begin(c)
    \/ \E c \in Clients, r \in TokenResponses(issued + 1) :
          rpc_get_tokens_finish(c, r, "none")
    \/ \E s \in Servers : rpc_status(s)
    \/ \E s \in Servers : rpc_revoke(s, "none")

ExpirySpec == ExpiryInit /\ [][ExpiryNext]_vars

\* ------------------------------------------------------------ the listener
\* Concurrent rpc_start_flow calls
ListenerStarters == {"f1", "f2"}

\* The state after init() with credentials in the environment and no token file, two
\* rpc_start_flow calls being possible at a time.
ListenerInit ==
    /\ now = 0
    /\ creds = [p \in {"google"} |-> Credentials("cid1", "sec1")]
    /\ pending = EmptyMap
    /\ tokenStore = EmptyMap
    /\ storeLock = None
    /\ disk = NoFile
    /\ serverRunning = FALSE
    /\ chan = << >>
    /\ consumer = None
    /\ hs = [h \in Handlers |-> Idle]
    /\ gs = [c \in Clients |-> NoCall]
    /\ fs = [f \in ListenerStarters |-> Idle]
    /\ flows = 0
    /\ issued = 0
    /\ boundTo = EmptyMap

\* Flow starts racing to start the listener, with every outcome of the bind, and the
\* callbacks the listener serves once it runs.
ListenerNext ==
    \/ \E f \in ListenerStarters, s \in Servers : rpc_start_flow_begin(f, GoogleStart(s))
    \/ \E f \in ListenerStarters, b \in BindOutcomes : rpc_start_flow_ensure(f, b)
    \/ \E h \in Handlers, st \in States :
          handle_callback_begin(h, [code |-> Some("code1"), state |-> Some(st),
                                    error |-> None])
    \/ \E h \in Handlers, r \in ExchangeResponses(issued + 1) :
          handle_callback_exchange(h, r)
    \/ \E h \in Handlers : handle_callback_send(h)
    \/ token_handler_recv
    \/ handle_token_result("none")

ListenerSpec == ListenerInit /\ [][ListenerNext]_vars

\* ------------------------------------------------------------ the token file
\* Flows through the listener to the consumer on a machine that has no token file, the
\* consumer's save seen step by step, and revokes.
DiskNext ==
    \/ Tick
    \/ \E s \in Servers : rpc_start_flow_begin("f1", GoogleStart(s))
    \/ rpc_start_flow_ensure("f1", "bound")
    \/ \E st \in States :
          handle_callback_begin("h1", [code |-> Some("code1"), state |-> Some(st),
                                       error |-> None])
    \/ \E r \in {x \in ExchangeResponses(issued + 1) : x.kind = "ok"} :
          handle_callback_exchange("h1", r)
    \/ handle_callback_send("h1")
    \/ token_handler_recv
    \/ handle_token_result_write
    \/ handle_token_result_chmod
    \/ \E s \in Servers : rpc_revoke(s, "none")

DiskSpec == ListenerInit /\ [][DiskNext]_vars

\* ---------------------------------------------------------- save and load
\* init() of a process started over the file the last one left, HARBOR_GOOGLE_CLIENT_ID
\* and _SECRET set: the globals are new, the credentials are the environment's, the
\* token store is what load makes of the file. (The clock, and the counts of flows and
\* grants made so far, go on.)
init(fault) ==
    /\ creds' = [p \in {"google"} |-> Credentials("cid1", "sec1")]
    /\ pending' = EmptyMap
    /\ tokenStore' = init_token_store(disk, fault)
    /\ storeLock' = None
    /\ serverRunning' = FALSE
    /\ chan' = << >>
    /\ consumer' = None
    /\ hs' = [h \in DOMAIN hs |-> Idle]
    /\ gs' = [c \in DOMAIN gs |-> NoCall]
    /\ fs' = [f \in DOMAIN fs |-> Idle]
    /\ UNCHANGED <<now, disk, flows, issued, boundTo>>

\* The token files init() may find: none, one an earlier run saved, one whose text
\* breaks off.
InitFiles ==
    {NoFile} \cup TokenFiles
    \cup {[exists |-> TRUE, valid |-> FALSE, tokens |-> EmptyMap, mode |-> "0600"]}

\* The state after init() with credentials in the environment, over any of InitFiles
\* and with any answer of the file system to the load.
FileInit ==
    /\ now = 0
    /\ creds = [p \in {"google"} |-> Credentials("cid1", "sec1")]
    /\ pending = EmptyMap
    /\ disk \in InitFiles
    /\ \E fault \in LoadFaults : tokenStore = init_token_store(disk, fault)
    /\ storeLock = None
    /\ serverRunning = FALSE
    /\ chan = << >>
    /\ consumer = None
    /\ hs = [h \in Handlers |-> Idle]
    /\ gs = [c \in Clients |-> NoCall]
    /\ fs = [f \in Starters |-> Idle]
    /\ flows = 0
    /\ issued = 0
    /\ boundTo = [a \in {AccessToken(0)} |->
                    GrantedFor("srv1", "google", <<"scope.a", "scope.b">>)]

\* Saves with everything the file system may do to them (by the consumer after a flow,
\* and by revoke), and restarts of the process, which load what the saves left.
FileNext ==
    \/ Tick
    \/ \E s \in Servers : rpc_start_flow_begin("f1", GoogleStart(s))
    \/ rpc_start_flow_ensure("f1", "bound")
    \/ \E st \in States :
          handle_callback_begin("h1", [code |-> Some("code1"), state |-> Some(st),
                                       error |-> None])
    \/ \E r \in {x \in TokenResponses(issued + 1) : x.kind = "ok"} :
          handle_callback_exchange("h1", r)
    \/ handle_callback_send("h1")
    \/ token_handler_recv
    \/ \E o \in SaveFaults : handle_token_result(o)
    \/ \E s \in Servers, o \in SaveFaults : rpc_revoke(s, o)
    \/ \E fault \in LoadFaults : init(fault)

FileSpec == FileInit /\ [][FileNext]_vars

\* ================================================================= properties
\* The callback requests that hold the flow stored under state s
Holders(s) == {h \in Handlers : hs[h].pc \in {"exchange", "send"} /\ hs[h].flow.state = s}

\* The callback request h took a flow in this step.
Took(h) == hs[h].pc = "idle" /\ hs'[h].pc = "exchange"

\* C1: pending flows are single-use. A callback that goes on to the exchange took its
\* flow out of the pending map in that very step (the flow was pending under the
\* callback's state before and is not after), no two callback requests take a flow in
\* one step or hold the flow of one state, and a state that was issued and is no
\* longer pending never becomes pending again: so a second take of it returns none.
C1_SingleUse ==
    [][ /\ \A h \in Handlers :
            Took(h) =>
                /\ hs'[h].flow.state \in DOMAIN pending
                /\ hs'[h].flow = pending[hs'[h].flow.state]
                /\ hs'[h].flow.state \notin DOMAIN pending'
                /\ Holders(hs'[h].flow.state) = {}
                /\ \A k \in Handlers \ {h} : ~Took(k)
        /\ \A n \in 1..flows :
            StateOf(n) \notin DOMAIN pending => StateOf(n) \notin DOMAIN pending'
        /\ \A n \in 1..MaxFlows :
            StateOf(n) \in DOMAIN pending => Holders(StateOf(n)) = {}]_vars

\* C1 happens: one callback request holds a taken flow, which is no longer pending,
\* while another request is being answered.
C1_Taken ==
    \E h, k \in Handlers :
        /\ h # k
        /\ hs[h].pc = "exchange"
        /\ hs[h].flow.state \notin DOMAIN pending
        /\ hs[k].pc = "send"

\* A callback request with a code, a state and no error parameter
WellFormed(p) == p.error = None /\ p.code # None /\ p.state # None

\* The callback request h ends in this step with nothing changed: no flow taken, no
\* exchange request, nothing sent to the channel, the token store and file as before.
EndsUntouched(h) ==
    /\ hs'[h] = Idle
    /\ UNCHANGED <<pending, chan, consumer, tokenStore, disk, issued>>

C5_RejectedCallback ==
    \A h \in Handlers, p \in CallbackParams :
        ~WellFormed(p)
        => /\ handle_callback_take(p, pending).page # None
           /\ Unwrap(handle_callback_take(p, pending).page).title =
                  (IF IsSome(p.error) THEN "Authorization Failed" ELSE "Invalid Request")
           /\ ~ENABLED (handle_callback_begin(h, p) /\ ~EndsUntouched(h))

\* C5 happens: the listener can take a request that carries an error parameter
\* together with a code and the state of a pending flow.
C5_ErrorWithPendingState ==
    \E h \in Handlers, st \in DOMAIN pending :
        ENABLED handle_callback_begin(h, [code |-> Some("code1"), state |-> Some(st),
                                         error |-> Some("access_denied")])

\* C7: when the consumer stores a successful outcome for a server_id, the record it
\* leaves in memory has the outcome's tokens, updated_at the current time, and
\* created_at the current time if no record existed and the existing record's
\* created_at if one did; this also when the save fails.
C7_CreatedAtKept ==
    consumer # None =>
        \A o \in {"none", "write_denied"} :
            ~ENABLED ( /\ handle_token_result(o)
                       /\ LET s == Unwrap(consumer).server_id IN
                          ~( /\ s \in DOMAIN tokenStore'
                             /\ tokenStore'[s].tokens = Unwrap(consumer).tokens.val
                             /\ tokenStore'[s].updated_at = NowMs
                             /\ tokenStore'[s].created_at =
                                    (IF s \in DOMAIN tokenStore
                                     THEN tokenStore[s].created_at ELSE NowMs) ) )

\* The keys of a URL's query, and the values under one key
QueryKeys(url) == {url.query[i][1] : i \in DOMAIN url.query}
QueryValues(url, key) == {url.query[i][2] : i \in {j \in DOMAIN url.query : url.query[j][1] = key}}

PkceInUrl(url) ==
    /\ "code_challenge" \in QueryKeys(url)
    /\ QueryValues(url, "code_challenge_method") = {"S256"}
NoPkceInUrl(url) ==
    /\ "code_challenge" \notin QueryKeys(url)
    /\ "code_challenge_method" \notin QueryKeys(url)

PkceEnabled(provider_id) == Unwrap(get_provider_config(provider_id)).pkce_enabled

\* C8: a flow start_flow returns has a code_verifier if and only if its provider's
\* config has pkce_enabled; its URL carries code_challenge (the S256 of that verifier)
\* and code_challenge_method=S256 in that case and neither key otherwise. The same
\* holds of every flow in the pending map and of every URL rpc_start_flow is about to
\* return.
C8_PkceIffEnabled ==
    /\ \A provider \in ProviderIds, server_id \in Servers, scopes \in ScopeLists,
          n \in 1..MaxFlows :
           LET r == start_flow(provider, server_id, scopes, Credentials("cid1", "sec1"),
                               StateOf(n), VerifierOf(n), NowMs)
           IN r.ok =>
                /\ IsSome(r.val.flow.code_verifier) <=> PkceEnabled(provider)
                /\ PkceEnabled(provider) =>
                      /\ PkceInUrl(r.val.auth_url)
                      /\ QueryValues(r.val.auth_url, "code_challenge")
                            = {S256(Unwrap(r.val.flow.code_verifier))}
                /\ ~PkceEnabled(provider) => NoPkceInUrl(r.val.auth_url)
    /\ \A st \in DOMAIN pending :
           IsSome(pending[st].code_verifier) <=> PkceEnabled(pending[st].provider_id)
    /\ \A f \in Starters :
           fs[f].pc = "ensure" =>
              /\ fs[f].auth_url.base = google_config.authorization_url
                    => PkceInUrl(fs[f].auth_url)
              /\ fs[f].auth_url.base = github_config.authorization_url
                    => NoPkceInUrl(fs[f].auth_url)

\* C8 happens: a flow with a verifier and a flow without one are pending.
C8_BothKinds ==
    \E s1, s2 \in DOMAIN pending :
        IsSome(pending[s1].code_verifier) /\ pending[s2].code_verifier = None

\* The texts of an Option, a list, a URL, a form, a token set, a record, an outcome
OptionTexts(o) == IF IsSome(o) THEN {Unwrap(o)} ELSE {}
ListTexts(l) == {l[i] : i \in DOMAIN l}
UrlTexts(url) ==
    {url.base} \cup {url.query[i][1] : i \in DOMAIN url.query}
               \cup {url.query[i][2] : i \in DOMAIN url.query}
FormTexts(form) ==
    {form[i][1] : i \in DOMAIN form} \cup {form[i][2] : i \in DOMAIN form}
TokenSetTexts(t) ==
    {t.access_token, t.token_type} \cup OptionTexts(t.refresh_token) \cup OptionTexts(t.scope)
RecordTexts(rec) ==
    {rec.server_id, rec.provider} \cup ListTexts(rec.scopes) \cup TokenSetTexts(rec.tokens)
OutcomeTexts(r) ==
    {r.server_id, r.provider} \cup ListTexts(r.scopes)
    \cup (IF r.tokens.ok THEN TokenSetTexts(r.tokens.val) ELSE {r.tokens.err})

\* What rpc_start_flow is about to return, whatever bind answers
StartReplyTexts(f) ==
    IF fs[f].pc # "ensure" THEN {}
    ELSE UNION {LET reply == rpc_start_flow_reply(fs[f],
                                 ensure_server_running(serverRunning, b))
                IN IF reply.ok THEN UrlTexts(reply.val.auth_url) \cup {reply.val.state}
                   ELSE {reply.err.message} : b \in BindOutcomes}

\* The refresh request get_access_token would send for the record of server_id
RefreshTexts(server_id) ==
    LET stored == tokenStore[server_id] IN
    IF IsSome(stored.tokens.refresh_token) /\ stored.provider \in DOMAIN creds
    THEN LET req == RefreshRequest(Unwrap(stored.tokens.refresh_token), stored.provider,
                                   creds[stored.provider])
         IN IF req = None THEN {} ELSE {Unwrap(req).url} \cup FormTexts(Unwrap(req).form)
    ELSE {}

\* Every text that leaves the flow manager other than in an exchange request: the URLs
\* and replies of rpc_start_flow, the outcomes in the channel and at the consumer, the
\* pages that end a callback, the records in memory and in the file, the refresh
\* requests.
Disclosed ==
    UNION ( {UrlTexts(fs[f].auth_url) \cup StartReplyTexts(f) :
                f \in {g \in Starters : fs[g].pc = "ensure"}}
            \cup {OutcomeTexts(chan[i]) : i \in DOMAIN chan}
            \cup {OutcomeTexts(Unwrap(consumer)) : x \in {y \in {1} : consumer # None}}
            \cup {OutcomeTexts(TokenResult(hs[h].flow, hs[h].tokens))
                    \cup {ExchangePage(hs[h].tokens).title, ExchangePage(hs[h].tokens).message} :
                        h \in {k \in Handlers : hs[k].pc = "send"}}
            \cup {RecordTexts(tokenStore[sv]) \cup RefreshTexts(sv) : sv \in DOMAIN tokenStore}
            \cup {RecordTexts(FileStore(disk)[sv]) : sv \in DOMAIN FileStore(disk)} )

\* The exchange request the callback request h sends, if it finds credentials
ExchangeRequestOf(h) ==
    exchange_code(hs[h].code, hs[h].flow, creds[hs[h].flow.provider_id],
                  [kind |-> "status", status |-> "400 Bad Request", body |-> "invalid_grant"],
                  NowMs).request

\* C9: no code_verifier of a flow is among the texts that leave the flow manager
\* outside an exchange request (authorization URL, reply of rpc_start_flow, outcome
\* on the channel, page, stored record, refresh request), and an outcome has no field
\* for it; the exchange request of a flow with a verifier carries it as code_verifier
\* to the token endpoint of the flow's provider, and no other flow's exchange request
\* carries it.
C9_VerifierUndisclosed ==
    /\ \A n \in 1..MaxFlows : VerifierOf(n) \notin Disclosed
    /\ \A i \in DOMAIN chan : DOMAIN chan[i] = {"server_id", "tokens", "provider", "scopes"}
    /\ \A h \in Handlers :
          (hs[h].pc = "exchange" /\ hs[h].flow.provider_id \in DOMAIN creds) =>
              LET req == Unwrap(ExchangeRequestOf(h)) IN
              /\ req.url = Unwrap(get_provider_config(hs[h].flow.provider_id)).token_url
              /\ \A n \in 1..MaxFlows :
                    VerifierOf(n) \in FormTexts(req.form)
                    <=> hs[h].flow.code_verifier = Some(VerifierOf(n))
              /\ IsSome(hs[h].flow.code_verifier) =>
                    \E i \in DOMAIN req.form :
                        req.form[i] = <<"code_verifier", Unwrap(hs[h].flow.code_verifier)>>

\* C9 happens: a callback request is about to send the exchange request of a flow with
\* a verifier, while an outcome of another such flow is on the channel, a record is
\* stored whose refresh request can be sent, and rpc_start_flow is about to return.
C9_VerifierInUse ==
    /\ \E h \in Handlers :
          /\ hs[h].pc = "exchange"
          /\ IsSome(hs[h].flow.code_verifier)
          /\ hs[h].flow.provider_id \in DOMAIN creds
    /\ \E sv \in DOMAIN tokenStore : RefreshTexts(sv) # {}
    /\ \E f \in Starters : fs[f].pc = "ensure"

\* The record of server_id is there and not within the expiry margin of the clock.
Fresh(server_id) ==
    /\ server_id \in DOMAIN tokenStore
    /\ \/ tokenStore[server_id].tokens.expires_at = None
       \/ Unwrap(tokenStore[server_id].tokens.expires_at) >= NowMs + EXPIRY_MARGIN_MS

\* The call c returns in this step, the store, the file and the guard as before and
\* no request to the provider in flight.
ReturnsUntouched(c) ==
    /\ gs'[c] = NoCall
    /\ UNCHANGED <<tokenStore, disk, storeLock, issued>>

\* The rpc_get_tokens calls whose refresh request is in flight
Refreshing == {c \in Clients : gs[c].pc = "refreshing"}

C3_ExclusiveRefresh ==
    /\ Cardinality(Refreshing) <= 1
    /\ \A c \in Clients : gs[c].pc = "refreshing" <=> storeLock = Some(c)
    /\ \A c \in Refreshing :
          /\ Unwrap(gs[c].server_id) \in DOMAIN tokenStore
          /\ IsSome(tokenStore[Unwrap(gs[c].server_id)].tokens.refresh_token)
          /\ is_expired(tokenStore, Unwrap(gs[c].server_id), NowMs)
          /\ \A sv \in Servers : ~ENABLED rpc_status(sv) /\ ~ENABLED rpc_revoke(sv, "none")
          /\ ~ENABLED handle_token_result("none")
          /\ \A d \in Clients : ~ENABLED rpc_get_tokens_begin(d)
          /\ ~ENABLED ( /\ StoreNext
                        /\ ~UNCHANGED <<tokenStore, disk>>
                        /\ ~( /\ storeLock' = None
                              /\ gs'[c] = NoCall
                              /\ \E r \in TokenResponses(issued + 1),
                                    o \in {"none", "write_denied"} :
                                       rpc_get_tokens_finish(c, r, o) ) )

\* C3 happens: a refresh is in flight while another call for the same server_id and
\* the consumer, with an outcome to store, wait for the guard.
C3_RefreshInFlight ==
    \E c, d \in Clients :
        /\ c # d
        /\ gs[c].pc = "refreshing"
        /\ gs[d].pc = "waiting"
        /\ gs[d].server_id = gs[c].server_id
        /\ consumer # None

\* C10: a call that finds the record of its server_id not within the expiry margin
\* returns the record's current access token, and no step of it does anything else:
\* no refresh request is sent, and the store, the file and the guard are as before.
C10_FreshRead ==
    \A c \in Clients :
        (gs[c].pc = "waiting" /\ Fresh(Unwrap(gs[c].server_id))) =>
            LET server_id == Unwrap(gs[c].server_id) IN
            /\ get_access_token_check(tokenStore, creds, server_id, NowMs)
                  = [kind |-> "token", token |-> tokenStore[server_id].tokens.access_token]
            /\ rpc_get_tokens_reply(tokenStore, creds, server_id, NowMs)
                  = Ok(TokensReply(tokenStore[server_id].tokens.access_token,
                                   tokenStore[server_id]))
            /\ ~ENABLED (rpc_get_tokens_begin(c) /\ ~ReturnsUntouched(c))

\* C10 happens: a call can take the guard for a record that is not within the expiry
\* margin and has a refresh token, credentials for its provider being configured.
C10_FreshRecordRead ==
    \E c \in Clients :
        /\ gs[c].pc = "waiting"
        /\ Fresh(Unwrap(gs[c].server_id))
        /\ IsSome(tokenStore[Unwrap(gs[c].server_id)].tokens.refresh_token)
        /\ tokenStore[Unwrap(gs[c].server_id)].provider \in DOMAIN creds
        /\ ENABLED rpc_get_tokens_begin(c)

\* The flow and exchange an access token in an outcome or a record was granted for
GrantOf(tokens) == boundTo[tokens.access_token]

\* The callback request h has completed the successful exchange that was granted the
\* n-th token, for a flow of server_id.
Exchanged(h, n, server_id) ==
    /\ hs[h].pc = "send"
    /\ hs[h].tokens.ok
    /\ hs[h].tokens.val.access_token = AccessToken(n)
    /\ hs[h].flow.server_id = server_id

\* The store holds under server_id the tokens of the n-th grant with the provider and
\* scopes of its flow.
StoredGrant(n, server_id) ==
    /\ server_id \in DOMAIN tokenStore
    /\ tokenStore[server_id].tokens.access_token = AccessToken(n)
    /\ tokenStore[server_id].provider = boundTo[AccessToken(n)].provider
    /\ tokenStore[server_id].scopes = boundTo[AccessToken(n)].scopes

\* Every outcome on its way and every record is addressed to the server_id of the flow
\* its tokens were granted for.
AddressedToOwnServer ==
    /\ \A i \in DOMAIN chan :
          chan[i].tokens.ok => chan[i].server_id = GrantOf(chan[i].tokens.val).server_id
    /\ consumer # None =>
          Unwrap(consumer).server_id = GrantOf(Unwrap(consumer).tokens.val).server_id
    /\ \A sv \in DOMAIN tokenStore :
          /\ tokenStore[sv].server_id = sv
          /\ GrantOf(tokenStore[sv].tokens)
                = GrantedFor(sv, tokenStore[sv].provider, tokenStore[sv].scopes)

Expired(server_id) ==
    /\ server_id \in DOMAIN tokenStore
    /\ IsSome(tokenStore[server_id].tokens.expires_at)
    /\ Unwrap(tokenStore[server_id].tokens.expires_at) < NowMs + EXPIRY_MARGIN_MS

\* The token set a granted refresh response stands for, read at the current time, old
\* being the refresh token the request carried.
GrantedTokens(response, old) ==
    [access_token |-> response.body.access_token,
     refresh_token |-> IF IsSome(response.body.refresh_token)
                       THEN response.body.refresh_token ELSE Some(old),
     expires_at |-> IF IsSome(response.body.expires_in)
                    THEN Some(NowMs + Unwrap(response.body.expires_in) * 1000) ELSE None,
     token_type |-> "Bearer",
     scope |-> None]

\* The call c goes from the guard to its refresh request in this step: one request in
\* flight, the guard kept, store and file as before.
SendsRefresh(c) ==
    /\ gs'[c].pc = "refreshing"
    /\ storeLock' = Some(c)
    /\ Refreshing = {}
    /\ UNCHANGED <<tokenStore, disk, issued>>

\* The call c returns in this step from a refresh the provider granted with response:
\* no further request, the record's token set replaced by the response's, updated_at
\* the current time, the rest of the record and the other records as before, the file
\* holding the new store.
ReturnsRefreshed(c, response) ==
    LET server_id == Unwrap(gs[c].server_id)
        before == tokenStore[server_id]
    IN
    /\ gs'[c] = NoCall
    /\ storeLock' = None
    /\ issued' = issued + 1
    /\ DOMAIN tokenStore' = DOMAIN tokenStore
    /\ tokenStore'[server_id].tokens
          = GrantedTokens(response, Unwrap(before.tokens.refresh_token))
    /\ tokenStore'[server_id].updated_at = NowMs
    /\ tokenStore'[server_id].updated_at >= before.updated_at
    /\ [tokenStore'[server_id] EXCEPT !.tokens = before.tokens,
                                      !.updated_at = before.updated_at] = before
    /\ \A sv \in DOMAIN tokenStore \ {server_id} : tokenStore'[sv] = tokenStore[sv]
    /\ disk'.exists /\ disk'.valid /\ FileStore(disk') = tokenStore'

\* C11: a call that takes the guard for a record within the expiry margin that has a
\* refresh token, credentials for its provider being configured, sends one refresh
\* request (the record's refresh token to the token endpoint of its provider) and
\* nothing else; and when the provider grants it and the file can be written, the call
\* returns without a further request, the record's token set is the response's,
\* updated_at is the current time and not earlier than before, the file holds the new
\* store, and the reply carries the response's access token.
C11_RefreshReplaces ==
    \A c \in Clients :
        /\ ( /\ gs[c].pc = "waiting"
             /\ StoreLockFree
             /\ Expired(Unwrap(gs[c].server_id))
             /\ IsSome(tokenStore[Unwrap(gs[c].server_id)].tokens.refresh_token)
             /\ tokenStore[Unwrap(gs[c].server_id)].provider \in DOMAIN creds )
           => LET stored == tokenStore[Unwrap(gs[c].server_id)]
                  check == get_access_token_check(tokenStore, creds,
                                                  Unwrap(gs[c].server_id), NowMs)
              IN
              /\ check.kind = "refresh"
              /\ check.request.url = Unwrap(get_provider_config(stored.provider)).token_url
              /\ check.request.form
                    = RefreshForm(Unwrap(stored.tokens.refresh_token), creds[stored.provider])
              /\ ~ENABLED (rpc_get_tokens_begin(c) /\ ~SendsRefresh(c))
        /\ gs[c].pc = "refreshing"
           => \A response \in {r \in TokenResponses(issued + 1) : r.kind = "ok"} :
                 /\ get_access_token_refreshed(tokenStore, disk, Unwrap(gs[c].server_id),
                                               response, "none", NowMs).reply.ok
                 /\ get_access_token_refreshed(tokenStore, disk, Unwrap(gs[c].server_id),
                                               response, "none", NowMs).reply.val.access_token
                       = response.body.access_token
                 /\ ~ENABLED ( /\ rpc_get_tokens_finish(c, response, "none")
                               /\ ~ReturnsRefreshed(c, response) )

\* C11 happens: the provider can grant the refresh in flight for a record that was
\* last updated before the current time.
C11_RefreshGranted ==
    \E c \in Clients :
        /\ gs[c].pc = "refreshing"
        /\ tokenStore[Unwrap(gs[c].server_id)].updated_at < NowMs
        /\ \E r \in TokenResponses(issued + 1) :
              r.kind = "ok" /\ ENABLED rpc_get_tokens_finish(c, r, "none")

\* C12: a call that finds the record of its server_id within the expiry margin and
\* without a refresh token fails with "Token expired and no refresh token available",
\* and no step of it does anything else: no refresh request is sent, and the record,
\* the store, the file and the guard are as before.
C12_RefreshUnavailable ==
    \A c \in Clients :
        ( /\ gs[c].pc = "waiting"
          /\ Expired(Unwrap(gs[c].server_id))
          /\ tokenStore[Unwrap(gs[c].server_id)].tokens.refresh_token = None )
        => /\ get_access_token_check(tokenStore, creds, Unwrap(gs[c].server_id), NowMs)
                 = [kind |-> "err", err |-> "Token expired and no refresh token available"]
           /\ rpc_get_tokens_reply(tokenStore, creds, Unwrap(gs[c].server_id), NowMs)
                 = RpcError(-32000, "Failed to get access token: "
                                    \o "Token expired and no refresh token available")
           /\ ~ENABLED (rpc_get_tokens_begin(c) /\ ~ReturnsUntouched(c))

\* C12 happens: a call can take the guard for a record within the expiry margin that
\* has no refresh token, credentials for its provider being configured.
C12_ExpiredWithoutRefreshToken ==
    \E c \in Clients :
        /\ gs[c].pc = "waiting"
        /\ Expired(Unwrap(gs[c].server_id))
        /\ tokenStore[Unwrap(gs[c].server_id)].tokens.refresh_token = None
        /\ tokenStore[Unwrap(gs[c].server_id)].provider \in DOMAIN creds
        /\ ENABLED rpc_get_tokens_begin(c)

\* C13: a call that finds the record of its server_id within the expiry margin, with a
\* refresh token, and no credentials configured for the record's provider fails with
\* "No credentials for provider: <provider>", and no step of it does anything else: no
\* refresh request is sent, and the record, the store, the file and the guard are as
\* before.
C13_MissingCredentials ==
    \A c \in Clients :
        ( /\ gs[c].pc = "waiting"
          /\ Expired(Unwrap(gs[c].server_id))
          /\ IsSome(tokenStore[Unwrap(gs[c].server_id)].tokens.refresh_token)
          /\ get_credentials(creds, tokenStore[Unwrap(gs[c].server_id)].provider) = None )
        => /\ get_access_token_check(tokenStore, creds, Unwrap(gs[c].server_id), NowMs)
                 = [kind |-> "err",
                    err |-> "No credentials for provider: "
                            \o tokenStore[Unwrap(gs[c].server_id)].provider]
           /\ rpc_get_tokens_reply(tokenStore, creds, Unwrap(gs[c].server_id), NowMs)
                 = RpcError(-32000, "Failed to get access token: "
                                    \o "No credentials for provider: "
                                    \o tokenStore[Unwrap(gs[c].server_id)].provider)
           /\ ~ENABLED (rpc_get_tokens_begin(c) /\ ~ReturnsUntouched(c))

\* C13 happens: after the credentials of the record's provider were removed, a call
\* can take the guard for a record within the expiry margin that has a refresh token.
C13_ExpiredAfterRemoveCredentials ==
    \E c \in Clients :
        /\ gs[c].pc = "waiting"
        /\ Expired(Unwrap(gs[c].server_id))
        /\ IsSome(tokenStore[Unwrap(gs[c].server_id)].tokens.refresh_token)
        /\ creds = EmptyMap
        /\ ENABLED rpc_get_tokens_begin(c)

\* The time left to the expiry of the record of server_id (negative when past)
Remaining(server_id) == Unwrap(tokenStore[server_id].tokens.expires_at) - NowMs

\* What the readers of the expiry make of is_expired's answer: rpc_status reports it,
\* and get_access_token hands out the stored token exactly when it is false.
ReadersAgree(server_id) ==
    /\ StatusReply(tokenStore, server_id, NowMs).val.is_expired
          = is_expired(tokenStore, server_id, NowMs)
    /\ get_access_token_check(tokenStore, creds, server_id, NowMs).kind = "token"
          <=> ~is_expired(tokenStore, server_id, NowMs)

\* C14 as stated, a record with exactly 60,000 ms left being within 60,000 ms of the
\* current time: is_expired is true when there is no record, false for a record
\* without expires_at, and for a record with one true exactly when at most 60,000 ms
\* are left.
C14_ExpiredWithinMargin ==
    \A server_id \in Servers :
        is_expired(tokenStore, server_id, NowMs)
            = IF server_id \notin DOMAIN tokenStore THEN TRUE
              ELSE IF tokenStore[server_id].tokens.expires_at = None THEN FALSE
              ELSE Remaining(server_id) <= EXPIRY_MARGIN_MS

\* C14, amended: is_expired is true when there is no record, false for a record
\* without expires_at, and for a record with one true exactly when fewer than 60,000
\* ms are left (the expiry already past included); a record with exactly 60,000 ms
\* left is not expired. rpc_status reports the same value and get_access_token hands
\* out the stored token exactly when it is false.
C14_ExpiredInsideMargin ==
    \A server_id \in Servers :
        /\ is_expired(tokenStore, server_id, NowMs)
              = IF server_id \notin DOMAIN tokenStore THEN TRUE
                ELSE IF tokenStore[server_id].tokens.expires_at = None THEN FALSE
                ELSE Remaining(server_id) < EXPIRY_MARGIN_MS
        /\ server_id \in DOMAIN tokenStore => ReadersAgree(server_id)

\* C14 happens: a call can take the guard for a record that has exactly the margin
\* left, after the clock has moved.
C14_AtTheMargin ==
    \E c \in Clients :
        /\ gs[c].pc = "waiting"
        /\ Unwrap(gs[c].server_id) \in DOMAIN tokenStore
        /\ IsSome(tokenStore[Unwrap(gs[c].server_id)].tokens.expires_at)
        /\ Remaining(Unwrap(gs[c].server_id)) = EXPIRY_MARGIN_MS
        /\ now > 0
        /\ ENABLED rpc_get_tokens_begin(c)

\* rpc_revoke(server_id) has run in this step: no record under server_id, the other
\* records as before, no request to the provider, no guard taken.
Revoked(server_id) ==
    /\ server_id \notin DOMAIN tokenStore'
    /\ \A sv \in Servers \ {server_id} :
          /\ sv \in DOMAIN tokenStore' <=> sv \in DOMAIN tokenStore
          /\ sv \in DOMAIN tokenStore => tokenStore'[sv] = tokenStore[sv]
    /\ UNCHANGED <<storeLock, gs, issued>>

\* The consumer stores the outcome it holds for server_id.
ConsumerStores(server_id) ==
    /\ consumer # None
    /\ Unwrap(consumer).server_id = server_id
    /\ consumer' = None

\* C15: rpc_revoke(server_id) leaves no record under server_id in the store, whatever
\* record was there (none, fresh, expired, with or without a refresh token) and also
\* when its save fails, and with the save done none in the file; from then on the
\* record stays absent until the consumer stores an outcome for server_id; and while
\* it is absent get_access_token fails with "No tokens found for server: <server_id>"
\* (rpc_get_tokens answers has_tokens = false) and no step of a call sends a request
\* to the provider or changes store, file or guard.
C15_RevokedThenNoTokens ==
    \A server_id \in Servers :
        /\ \A o \in {"none", "write_denied"} :
              ~ENABLED (rpc_revoke(server_id, o) /\ ~Revoked(server_id))
        /\ ~ENABLED ( /\ rpc_revoke(server_id, "none")
                      /\ ~(disk'.valid /\ server_id \notin DOMAIN FileStore(disk')) )
        /\ server_id \notin DOMAIN tokenStore =>
              /\ get_access_token_check(tokenStore, creds, server_id, NowMs)
                    = [kind |-> "err", err |-> "No tokens found for server: " \o server_id]
              /\ rpc_get_tokens_reply(tokenStore, creds, server_id, NowMs)
                    = Ok([has_tokens |-> FALSE])
              /\ \A c \in Clients :
                    (gs[c].pc = "waiting" /\ gs[c].server_id = Some(server_id))
                    => ~ENABLED (rpc_get_tokens_begin(c) /\ ~ReturnsUntouched(c))
              /\ ~ENABLED ( /\ StoreNext
                            /\ server_id \in DOMAIN tokenStore'
                            /\ ~ConsumerStores(server_id) )

\* C15 happens: the record the token file had for srv1 has been revoked after a
\* refresh replaced it, store and file hold no record for srv1, and a call for srv1
\* can take the guard.
C15_AfterRevoke ==
    /\ "srv1" \notin DOMAIN tokenStore
    /\ "srv1" \notin DOMAIN FileStore(disk)
    /\ issued > 0
    /\ AccessToken(1) \in DOMAIN boundTo
    /\ boundTo[AccessToken(1)].server_id = "srv1"
    /\ \E c \in Clients :
          /\ gs[c].pc = "waiting"
          /\ gs[c].server_id = Some("srv1")
          /\ ENABLED rpc_get_tokens_begin(c)

\* The refresh token of the record of server_id
StoredRefreshToken(server_id) == tokenStore[server_id].tokens.refresh_token

\* C16: every refresh the provider grants leaves as the record's refresh token the one
\* in the response if the response has one and the one stored before if it has none,
\* whether or not the save that follows succeeds; this at the first refresh of a
\* record and at every later one, so a record that has a refresh token has one after
\* any number of refreshes.
C16_RefreshTokenKept ==
    /\ \A sv \in DOMAIN tokenStore : IsSome(StoredRefreshToken(sv))
    /\ \A c \in Clients :
          gs[c].pc = "refreshing" =>
              \A r \in {x \in TokenResponses(issued + 1) : x.kind = "ok"},
                 o \in {"none", "write_denied"} :
                  ~ENABLED ( /\ rpc_get_tokens_finish(c, r, o)
                             /\ ~( /\ IsSome(tokenStore'[Unwrap(gs[c].server_id)]
                                                  .tokens.refresh_token)
                                   /\ tokenStore'[Unwrap(gs[c].server_id)].tokens.refresh_token
                                         = IF IsSome(r.body.refresh_token)
                                           THEN r.body.refresh_token
                                           ELSE StoredRefreshToken(Unwrap(gs[c].server_id)) ) )

\* C16 happens: a second refresh of a record is in flight, the record holding the
\* access token of the first refresh and the refresh token from before it, which the
\* first response omitted; the provider can grant the second.
C16_SecondRefresh ==
    \E c \in Clients :
        /\ gs[c].pc = "refreshing"
        /\ tokenStore[Unwrap(gs[c].server_id)].tokens.access_token = AccessToken(1)
        /\ StoredRefreshToken(Unwrap(gs[c].server_id)) = Some(RefreshToken(0))
        /\ \E r \in TokenResponses(issued + 1) :
              /\ r.kind = "ok"
              /\ r.body.refresh_token = None
              /\ ENABLED rpc_get_tokens_finish(c, r, "none")

\* The rpc_start_flow call f returns in this step without a bind: the listener, its
\* channel and its consumer as they are.
ReturnsWithoutBind(f) ==
    /\ fs'[f] = Idle
    /\ serverRunning'
    /\ UNCHANGED <<chan, consumer, hs>>

\* C17: the port is bound only by a call that finds the listener not running, and
\* that call sets the running flag under the same guard, so of any number of calls,
\* one after another or waiting for the guard together, at most one binds: once the
\* flag is set no step clears it, every ensure_server_running returns success without
\* a bind whatever a bind would answer, and the channel and the consumer with what
\* they hold stay in place. Before that, nothing is on the channel and no callback
\* is served.
C17_ListenerSingleton ==
    /\ serverRunning =>
          /\ \A b \in BindOutcomes :
                /\ ensure_server_running(serverRunning, b).result.ok
                /\ ~ensure_server_running(serverRunning, b).bound
                /\ ensure_server_running(serverRunning, b).running
          /\ \A f \in DOMAIN fs, b \in BindOutcomes :
                ~ENABLED (rpc_start_flow_ensure(f, b) /\ ~ReturnsWithoutBind(f))
          /\ ~ENABLED (ListenerNext /\ ~serverRunning')
    /\ ~serverRunning =>
          /\ chan = << >>
          /\ consumer = None
          /\ \A h \in Handlers : hs[h] = Idle
          /\ \A f \in DOMAIN fs :
                ~ENABLED ( /\ rpc_start_flow_ensure(f, "bound")
                           /\ ~(serverRunning' /\ chan' = << >> /\ consumer' = None) )

\* C17 happens: a call reaches ensure_server_running while the listener runs, an
\* outcome is queued on its channel and another is with its consumer.
C17_CallWhileRunning ==
    /\ serverRunning
    /\ \E f \in DOMAIN fs : fs[f].pc = "ensure"
    /\ chan # << >>
    /\ consumer # None

PortInUse == "Port 8765 is already in use. Another OAuth flow may be in progress."
BindFailed == "Failed to bind to port 8765: permission denied"

\* The rpc_start_flow call f returns in this step, the listener not running and
\* nothing started.
ReturnsNotRunning(f) ==
    /\ fs'[f] = Idle
    /\ ~serverRunning'
    /\ UNCHANGED <<chan, consumer, hs>>

\* C18: while the listener is not running, a bind that fails makes
\* ensure_server_running return an error that names the port (one text when the port
\* is in use, another for any other failure) and leave the running flag false;
\* rpc_start_flow returns that text after "Failed to start OAuth callback server: "
\* as its error, with no URL and no state; and the next call that reaches
\* ensure_server_running binds again, starting the listener if the bind succeeds.
C18_BindFailure ==
    ~serverRunning =>
        /\ ensure_server_running(serverRunning, "in_use")
              = [running |-> FALSE, result |-> Err(PortInUse), bound |-> FALSE]
        /\ ensure_server_running(serverRunning, "denied")
              = [running |-> FALSE, result |-> Err(BindFailed), bound |-> FALSE]
        /\ PortInUse # BindFailed
        /\ ensure_server_running(serverRunning, "bound").bound
        /\ \A f \in DOMAIN fs :
              fs[f].pc = "ensure" =>
                  /\ \A b \in {"in_use", "denied"} :
                        /\ rpc_start_flow_reply(fs[f],
                                                ensure_server_running(serverRunning, b))
                              = RpcError(-32000,
                                    "Failed to start OAuth callback server: "
                                    \o (IF b = "in_use" THEN PortInUse ELSE BindFailed))
                        /\ ~ENABLED (rpc_start_flow_ensure(f, b) /\ ~ReturnsNotRunning(f))
                  /\ ENABLED (rpc_start_flow_ensure(f, "bound") /\ serverRunning')

\* C18 happens: of two flows started, the call of one has returned from a failed bind
\* and the call of the other is at ensure_server_running, the listener not running.
C18_StartAfterFailedBind ==
    /\ ~serverRunning
    /\ flows = 2
    /\ Cardinality({f \in DOMAIN fs : fs[f].pc = "ensure"}) = 1

\* The rpc_start_flow call f for server_id has in this step made a flow and registered
\* it: the state the call goes on to return is new, is the one in its URL, and is
\* pending with the flow of server_id under it.
Registered(f, server_id) ==
    /\ fs'[f].pc = "ensure"
    /\ fs'[f].state \notin DOMAIN pending
    /\ fs'[f].state \in DOMAIN pending'
    /\ pending'[fs'[f].state].state = fs'[f].state
    /\ pending'[fs'[f].state].server_id = server_id
    /\ QueryValues(fs'[f].auth_url, "state") = {fs'[f].state}
    /\ \A st \in DOMAIN pending : st \in DOMAIN pending' /\ pending'[st] = pending[st]

\* A callback request takes the flow pending under st in this step.
TakenByCallback(st) ==
    \E h \in Handlers : Took(h) /\ hs'[h].flow = pending[st]

\* C19: rpc_start_flow registers the flow under its state in the step that makes it,
\* before it awaits ensure_server_running and returns; what it returns is that state
\* and the URL carrying it, and the return leaves the pending map as it is; a pending
\* flow leaves the map only in the step of a callback request that takes it; and a
\* callback with a code and a pending state is given the flow, not the Session
\* Expired page. So from the return of a state on, a callback for it finds the flow
\* unless a callback took it before; while no listener runs, every state about to be
\* returned is pending.
C19_RegisteredBeforeReturn ==
    /\ \A f \in DOMAIN fs, server_id \in Servers :
          ~ENABLED (rpc_start_flow_begin(f, GoogleStart(server_id))
                    /\ ~Registered(f, server_id))
    /\ \A f \in DOMAIN fs :
          fs[f].pc = "ensure" =>
              /\ ~serverRunning => fs[f].state \in DOMAIN pending
              /\ \A b \in BindOutcomes :
                    LET reply == rpc_start_flow_reply(fs[f],
                                     ensure_server_running(serverRunning, b))
                    IN /\ reply.ok => /\ reply.val.state = fs[f].state
                                      /\ reply.val.auth_url = fs[f].auth_url
                       /\ ~ENABLED (rpc_start_flow_ensure(f, b) /\ ~UNCHANGED pending)
    /\ \A st \in DOMAIN pending :
          /\ pending[st].state = st
          /\ handle_callback_take([code |-> Some("code1"), state |-> Some(st),
                                   error |-> None], pending)
                = [page |-> None, flow |-> Some(pending[st]),
                   rest |-> MapRemove(pending, st)]
          /\ ~ENABLED ( /\ ListenerNext
                        /\ st \notin DOMAIN pending'
                        /\ ~TakenByCallback(st) )
    /\ \A n \in 1..flows : StateOf(n) \notin DOMAIN pending => serverRunning

\* C19 happens: the one rpc_start_flow call made so far has started the listener and
\* returned, its flow is pending, and the callback for the returned state can arrive.
C19_ReturnedStatePending ==
    /\ serverRunning
    /\ flows = 1
    /\ \A f \in DOMAIN fs : fs[f] = Idle
    /\ StateOf(1) \in DOMAIN pending
    /\ ENABLED handle_callback_begin("h1", [code |-> Some("code1"),
                                            state |-> Some(StateOf(1)),
                                            error |-> None])

\* The token file holds token data.
HoldsTokenData == disk.exists /\ disk.valid /\ FileStore(disk) # EmptyMap

\* C20: in every state in which the token file holds token data, the states between the
\* fs::write and the set_permissions of a save included, the file's mode is 0600.
C20_OwnerOnly == HoldsTokenData => disk.mode = "0600"

\* After this step the file holds a complete document, of the store it held before or
\* of the store being saved, and a load returns that store.
IntactAfterSave ==
    /\ disk'.exists /\ disk'.valid
    /\ load(disk', "none").ok
    /\ load(disk', "none").val \in {FileStore(disk), tokenStore'}

\* C21: whatever happens to a save (it completes, the write is refused, the write
\* breaks off, the chmod is refused), the file afterwards holds a complete document of
\* the store it held before or of the store being saved, and the next load returns
\* that store.
C21_NoPartialFile ==
    (disk.exists /\ disk.valid) =>
        \A o \in SaveFaults :
            /\ ~ENABLED (handle_token_result(o) /\ ~IntactAfterSave)
            /\ \A server_id \in Servers :
                  ~ENABLED (rpc_revoke(server_id, o) /\ ~IntactAfterSave)

\* Two records are the same field for field.
SameRecord(a, b) ==
    /\ a.server_id = b.server_id
    /\ a.provider = b.provider
    /\ a.tokens.access_token = b.tokens.access_token
    /\ a.tokens.refresh_token = b.tokens.refresh_token
    /\ a.tokens.expires_at = b.tokens.expires_at
    /\ a.tokens.token_type = b.tokens.token_type
    /\ a.tokens.scope = b.tokens.scope
    /\ a.scopes = b.scopes
    /\ a.created_at = b.created_at
    /\ a.updated_at = b.updated_at

\* Two stores have the same server_ids and under each the same record.
SameStore(a, b) ==
    /\ DOMAIN a = DOMAIN b
    /\ \A sv \in DOMAIN a : SameRecord(a[sv], b[sv])

\* After this step a load of the file succeeds and returns the store in memory.
LoadsWhatWasSaved ==
    /\ load(disk', "none").ok
    /\ SameStore(load(disk', "none").val, tokenStore')

\* C22: the store in memory, rendered and read back, is the same store (the same
\* server_ids and under each the same record field for field); and every save that
\* succeeds, by the consumer or by revoke, leaves a file whose load returns the store
\* that was saved. So the store init() loads from a file a successful save left is
\* that store.
C22_RoundTrip ==
    /\ SameStore(from_json(to_json(tokenStore)), tokenStore)
    /\ ~ENABLED (handle_token_result("none") /\ ~LoadsWhatWasSaved)
    /\ \A server_id \in Servers :
          ~ENABLED (rpc_revoke(server_id, "none") /\ ~LoadsWhatWasSaved)
    /\ (disk.exists /\ disk.valid) =>
          /\ to_json(from_json(disk.tokens)) = disk.tokens
          /\ ~ENABLED (init("none") /\ ~SameStore(tokenStore', FileStore(disk)))

\* C22 happens: a restarted process has loaded two records from the file, among them
\* one without a refresh token and one without an expiry.
C22_LoadedAfterRestart ==
    /\ ~serverRunning
    /\ flows > 0
    /\ Cardinality(DOMAIN tokenStore) = 2
    /\ tokenStore = FileStore(disk)
    /\ \E sv \in DOMAIN tokenStore : tokenStore[sv].tokens.refresh_token = None
    /\ \E sv \in DOMAIN tokenStore : tokenStore[sv].tokens.expires_at = None

\* The store init() is to leave over the file, given the file system's answer
Loaded(fault) ==
    IF ~disk.exists THEN EmptyMap
    ELSE IF fault # "none" THEN EmptyMap
    ELSE IF ~disk.valid THEN EmptyMap
    ELSE from_json(disk.tokens)

\* C23: init() completes whatever the token file is and whatever the file system
\* answers, and leaves a token store: an empty one when there is no file, when the
\* file cannot be read, when its text is not a complete document and when the home
\* directory is not found, and the store the file's document stands for otherwise.
C23_InitNeverFails ==
    \A fault \in LoadFaults :
        /\ init_token_store(disk, fault) = Loaded(fault)
        /\ ~load(disk, fault).ok => init_token_store(disk, fault) = EmptyMap
        /\ ENABLED init(fault)
        /\ ~ENABLED (init(fault) /\ ~(tokenStore' = Loaded(fault) /\ storeLock' = None))

\* C23 happens: a process restarted over a file whose text a save left broken off has
\* an empty store.
C23_InitOverBrokenFile ==
    /\ disk.exists
    /\ ~disk.valid
    /\ issued > 0
    /\ ~serverRunning
    /\ consumer = None
    /\ chan = << >>
    /\ hs["h1"] = Idle
    /\ tokenStore = EmptyMap

\* The rpc_start_flow parameters that are complete and name a provider the registry
\* does not have.
UnregisteredStarts ==
    {params \in StartParams :
        /\ params.provider # None
        /\ params.server_id # None
        /\ Len(params.scopes) > 0
        /\ get_provider_config(Unwrap(params.provider)) = None}

\* A start for an unregistered provider returns an error, registers no pending flow and
\* does not start the listener; start_flow itself returns the unknown-provider error.
UnregisteredStartsFail ==
    \A params \in UnregisteredStarts :
        /\ \A cid \in {"cid1", "cid2"} :
              start_flow(Unwrap(params.provider), Unwrap(params.server_id), params.scopes,
                         Credentials(cid, "sec1"), StateOf(flows + 1),
                         VerifierOf(flows + 1), NowMs)
                  = Err("Unknown provider: " \o Unwrap(params.provider))
        /\ ~rpc_start_flow_check(params, creds, flows + 1, NowMs).ok
        /\ \A f \in Starters :
              /\ fs[f].pc = "idle" => ENABLED rpc_start_flow_begin(f, params)
              /\ ~ENABLED (/\ rpc_start_flow_begin(f, params)
                           /\ ~(/\ pending' = pending
                                /\ serverRunning' = serverRunning
                                /\ fs'[f].pc = "idle"))

\* C24: a flow for a provider id the registry does not have fails with an
\* unknown-provider error that reaches the caller: start_flow returns the
\* unknown-provider error, rpc_start_flow returns an error that reports the provider
\* as unknown, and the call registers no pending flow and does not start the listener.
C24_UnknownProviderReported ==
    /\ UnregisteredStartsFail
    /\ \A params \in UnregisteredStarts :
          rpc_start_flow_check(params, creds, flows + 1, NowMs)
              = RpcError(-32000, "Failed to start OAuth flow: Unknown provider: "
                                 \o Unwrap(params.provider))

\* The provider's refusal of a token request
Refusal == [kind |-> "status", status |-> "400 Bad Request", body |-> "invalid_grant"]

TokenExchangeFailed == Err("Token exchange failed: 400 Bad Request - invalid_grant")

SessionExpiredPage ==
    Page("Session Expired", "This authorization session has expired. Please try again.")

\* The states start_flow has generated so far
GeneratedStates == {StateOf(n) : n \in 1..flows}

\* This step leaves the token store, the token file and the pending flows as they are.
KeepsStoreAndPending ==
    /\ tokenStore' = tokenStore
    /\ disk' = disk
    /\ pending' = pending

\* What a handler, the channel and the consumer do with a refused exchange, as a
\* predicate of every reachable state.
RefusedExchange ==
    /\ \A h \in Handlers :
          /\ hs[h].pc \in {"exchange", "send"} => hs[h].flow.state \notin DOMAIN pending
          /\ ~ENABLED (/\ handle_callback_exchange(h, Refusal)
                       /\ ~(/\ hs'[h] = [pc |-> "send", flow |-> hs[h].flow,
                                         tokens |-> TokenExchangeFailed]
                            /\ issued' = issued
                            /\ chan' = chan
                            /\ KeepsStoreAndPending))
          /\ hs[h].pc = "send" =>
                /\ \A r \in TokenResponses(issued + 1) :
                      ~ENABLED handle_callback_exchange(h, r)
                /\ ~ENABLED (/\ handle_callback_send(h)
                             /\ ~(/\ hs'[h] = Idle
                                  /\ Len(chan') = Len(chan) + 1
                                  /\ KeepsStoreAndPending))
    /\ (chan # << >> /\ ~Head(chan).tokens.ok) =>
          ~ENABLED (/\ token_handler_recv
                    /\ ~(consumer' = None /\ KeepsStoreAndPending))
    /\ consumer # None => Unwrap(consumer).tokens.ok
    /\ \A st \in GeneratedStates \ DOMAIN pending :
          \A c \in Codes :
             handle_callback_take([code |-> Some(c), state |-> Some(st), error |-> None],
                                  pending)
                 = [page |-> Some(SessionExpiredPage), flow |-> None, rest |-> pending]

\* C25: a callback sends one token request and no second one: when the provider
\* refuses it, the handler goes on to publish the outcome "Token exchange failed: .."
\* and cannot send again; the refused request, the publishing and the consumer's
\* receipt of the failed outcome leave the token store, the token file and the pending
\* flows as they are; the flow left the pending map when the callback took it, and a
\* state that has left the map is never pending again, so every later callback with it
\* gets the Session Expired page (a new flow has a new state).
C25_NoRetry ==
    /\ []RefusedExchange
    /\ [][\A st \in GeneratedStates \ DOMAIN pending : st \notin DOMAIN pending']_vars

\* C25 happens: the outcome of a refused exchange is in the channel, its server_id has
\* no record, and no flow is pending.
C25_RefusedOutcomeQueued ==
    /\ \E i \in DOMAIN chan :
          /\ chan[i].tokens = TokenExchangeFailed
          /\ chan[i].server_id \notin DOMAIN tokenStore
    /\ flows > 0
    /\ pending = EmptyMap

\* C26: a call that waits for the provider's answer returns: a callback request in
\* exchange_code completes, an rpc_get_tokens call in refresh_tokens completes, and
\* the store's write guard held during the refresh is released.
C26_CallsReturn ==
    /\ hs["h1"].pc = "exchange" ~> hs["h1"].pc = "idle"
    /\ gs["g1"].pc = "refreshing" ~> gs["g1"].pc = "idle"
    /\ storeLock = Some("g1") ~> storeLock = None

\* The channel is full and a handler has an outcome to publish.
SendWaits(h) == hs[h].pc = "send" /\ Len(chan) = CHANNEL_CAPACITY

SomeRecords ==
    {StoredFromResult([server_id |-> sv, provider |-> "google",
                       scopes |-> <<"scope.a", "scope.b">>,
                       tokens |-> ExchangeResult(r, NowMs)], NowMs) :
        sv \in Servers, r \in {x \in TokenResponses(issued + 1) : x.kind = "ok"}}
    \cup {LoadedRecord(sv, rt) : sv \in Servers, rt \in {None, Some(RefreshToken(0))}}
    \cup {tokenStore[sv] : sv \in DOMAIN tokenStore}

\* C28: the store holds at most one record under a server_id: after
\* set_tokens(id, r), get_tokens(id) is r and has_tokens(id) is true whatever was
\* there before, the store has the server_ids it had and id, and get_tokens and
\* has_tokens of every other server_id are as before; the consumer's store step does
\* just that to the store; and a new store has no record under any server_id.
C28_OneRecordPerServer ==
    /\ \A id \in Servers :
          /\ get_tokens(TokenStore_new, id) = None
          /\ ~has_tokens(TokenStore_new, id)
    /\ \A id \in Servers, r \in SomeRecords :
          LET after == set_tokens(tokenStore, id, r) IN
          /\ get_tokens(after, id) = Some(r)
          /\ has_tokens(after, id)
          /\ DOMAIN after = DOMAIN tokenStore \cup {id}
          /\ \A other \in Servers \ {id} :
                /\ get_tokens(after, other) = get_tokens(tokenStore, other)
                /\ has_tokens(after, other) = has_tokens(tokenStore, other)
    /\ consumer # None =>
          \A o \in SaveFaults :
             ~ENABLED (/\ handle_token_result(o)
                       /\ ~(/\ get_tokens(tokenStore', Unwrap(consumer).server_id)
                                 = Some(StoredFromResult(Unwrap(consumer), NowMs))
                            /\ \A other \in Servers \ {Unwrap(consumer).server_id} :
                                  get_tokens(tokenStore', other)
                                      = get_tokens(tokenStore, other)))

\* C28 happens: the record the token file had for srv1 has been replaced by the record
\* of a later grant, and the record stored for srv2 before that is as it was stored.
C28_ReplacedBesideAnother ==
    /\ DOMAIN tokenStore = {"srv1", "srv2"}
    /\ tokenStore["srv2"].tokens.access_token = AccessToken(1)
    /\ tokenStore["srv1"].tokens.access_token = AccessToken(2)

\* The parameters every authorization URL carries, each once: client_id, redirect_uri,
\* response_type=code, state, and the scopes joined by spaces.
CommonInUrl(url, client_id, state, scopes) ==
    /\ QueryValues(url, "client_id") = {client_id}
    /\ QueryValues(url, "redirect_uri") = {CALLBACK_URL}
    /\ QueryValues(url, "response_type") = {"code"}
    /\ QueryValues(url, "state") = {state}
    /\ QueryValues(url, "scope") = {Join(scopes)}
    /\ \A key \in QueryKeys(url) :
          Cardinality({i \in DOMAIN url.query : url.query[i][1] = key}) = 1

GoogleUrl(url, client_id, state, scopes) ==
    /\ url.base = "https://accounts.google.com/o/oauth2/v2/auth"
    /\ CommonInUrl(url, client_id, state, scopes)
    /\ Cardinality(QueryValues(url, "code_challenge")) = 1
    /\ QueryValues(url, "code_challenge_method") = {"S256"}
    /\ QueryValues(url, "access_type") = {"offline"}
    /\ QueryValues(url, "prompt") = {"consent"}
    /\ QueryKeys(url) = {"client_id", "redirect_uri", "response_type", "state", "scope",
                         "code_challenge", "code_challenge_method", "access_type",
                         "prompt"}

GithubUrl(url, client_id, state, scopes) ==
    /\ url.base = "https://github.com/login/oauth/authorize"
    /\ CommonInUrl(url, client_id, state, scopes)
    /\ QueryKeys(url) \cap {"code_challenge", "code_challenge_method", "access_type",
                            "prompt"} = {}

ProviderUrl(provider, url, client_id, state, scopes) ==
    IF provider = "google" THEN GoogleUrl(url, client_id, state, scopes)
    ELSE GithubUrl(url, client_id, state, scopes)

\* C29: the authorization URL start_flow builds for google has code_challenge,
\* code_challenge_method=S256, access_type=offline and prompt=consent beside
\* client_id, redirect_uri, response_type=code, state and the scopes joined by spaces;
\* the one it builds for github has those five and none of code_challenge,
\* code_challenge_method, access_type and prompt. The URL rpc_start_flow holds for its
\* caller is that URL, with the client_id of the provider's credentials and the state
\* of the flow it registered.
C29_AuthorizationUrl ==
    /\ \A provider \in {"google", "github"}, server_id \in Servers,
          scopes \in {l \in ScopeLists : Len(l) > 0}, cid \in {"cid1", "cid2"},
          n \in 1..MaxFlows :
           LET r == start_flow(provider, server_id, scopes, Credentials(cid, "sec1"),
                               StateOf(n), VerifierOf(n), NowMs)
           IN /\ r.ok
              /\ ProviderUrl(provider, r.val.auth_url, cid, StateOf(n), scopes)
              /\ provider = "google" =>
                    QueryValues(r.val.auth_url, "code_challenge") = {S256(VerifierOf(n))}
    /\ \A f \in Starters, params \in StartParams :
          ~ENABLED (/\ rpc_start_flow_begin(f, params)
                    /\ fs'[f].pc = "ensure"
                    /\ ~(/\ Unwrap(params.provider) \in {"google", "github"}
                         /\ ProviderUrl(Unwrap(params.provider), fs'[f].auth_url,
                                        creds[Unwrap(params.provider)].client_id,
                                        fs'[f].state, params.scopes)
                         /\ fs'[f].state \in DOMAIN pending'))

\* C29 happens: rpc_start_flow holds the URL of a github flow for its caller while a
\* google flow started before it is pending.
C29_BothProvidersStarted ==
    /\ fs["f1"].pc = "ensure"
    /\ fs["f1"].auth_url.base = "https://github.com/login/oauth/authorize"
    /\ \E st \in DOMAIN pending : pending[st].provider_id = "google"

\* Byte strings of a length: constant ones and ramps, among them all zeros and all 255.
ByteStrings(len) ==
    {[i \in 1..len |-> (k * i + c) % 256] : k \in {0, 1, 37}, c \in {0, 255}}

\* The length of the URL-safe unpadded encoding of 32 bytes
MinEntropyLen == (4 * 32 + 2) \div 3

\* A text of at least the minimum length (hence not empty) in the URL-safe alphabet
LongEnough(text) ==
    /\ Len(text) > 0
    /\ Len(text) >= MinEntropyLen
    /\ \A i \in DOMAIN text : \E n \in 0..63 : text[i] = Sextet(n)

C31_RevokeReportsSuccess ==
    /\ rpc_revoke_reply(None, Ok("saved")) = MissingServerId
    /\ \A server_id \in Servers, o \in SaveFaults :
          LET saved == save(remove_tokens(tokenStore, server_id), disk, o) IN
          /\ saved.result.ok <=> o = "none"
          /\ rpc_revoke_reply(Some(server_id), saved.result) = Ok([success |-> TRUE])
          /\ StoreLockFree => ENABLED rpc_revoke(server_id, o)
          /\ ~ENABLED (/\ rpc_revoke(server_id, o)
                       /\ ~(/\ server_id \notin DOMAIN tokenStore'
                            /\ \A other \in Servers \ {server_id} :
                                  get_tokens(tokenStore', other)
                                      = get_tokens(tokenStore, other)
                            /\ server_id \notin DOMAIN tokenStore
                                  => tokenStore' = tokenStore
                            /\ o = "write_denied" => disk' = disk))

\* C31 happens: srv1 was revoked and the save failed: the store has the record of srv2
\* alone, the file still has both.
C31_RevokedWithFailedSave ==
    /\ DOMAIN tokenStore = {"srv2"}
    /\ disk.exists /\ disk.valid
    /\ DOMAIN FileStore(disk) = {"srv1", "srv2"}
    /\ FileStore(disk)["srv2"] = tokenStore["srv2"]
    /\ issued = 1

\* The flow pending under st is pending under st after this step, the same flow.
StaysPending(st) == st \in DOMAIN pending' /\ pending'[st] = pending[st]

AfterRefresh(c, response, fault) ==
    get_access_token_refreshed(tokenStore, disk, Unwrap(gs[c].server_id), response,
                               fault, NowMs)

\* get_access_token's errors that come before its save leave the store as it was: no
\* record, no refresh token, no credentials, an unregistered provider, and a refresh
\* the provider did not grant.
ErrorBeforeSaveLeavesStore ==
    \A c \in Clients :
        /\ gs[c].pc = "waiting" =>
              ~ENABLED (/\ rpc_get_tokens_begin(c)
                        /\ ~(tokenStore' = tokenStore /\ disk' = disk))
        /\ gs[c].pc = "refreshing" =>
              \A r \in {x \in TokenResponses(issued + 1) : x.kind # "ok"} :
                 /\ ~AfterRefresh(c, r, "none").reply.ok
                 /\ AfterRefresh(c, r, "none").store = tokenStore
                 /\ ~ENABLED (/\ rpc_get_tokens_finish(c, r, "none")
                              /\ ~(tokenStore' = tokenStore /\ disk' = disk))

\* C33: whenever get_access_token returns an error, the store in memory is as it was
\* before the call: for the errors before the save, and for the error of the save
\* that follows a granted refresh.
C33_ErrorLeavesStore ==
    /\ ErrorBeforeSaveLeavesStore
    /\ \A c \in Clients :
          gs[c].pc = "refreshing" =>
             \A r \in TokenResponses(issued + 1), o \in {"none", "write_denied"} :
                ~AfterRefresh(c, r, o).reply.ok => AfterRefresh(c, r, o).store = tokenStore

\* rpc_start_flow's errors that come before store_pending_flow leave the pending map
\* as it was: a missing provider or server_id, missing or empty scopes, a provider
\* without credentials and an unregistered provider.
StartErrorBeforeStoreLeavesPending ==
    \A f \in Starters, params \in StartParams :
        ~rpc_start_flow_check(params, creds, flows + 1, NowMs).ok =>
            /\ fs[f].pc = "idle" => ENABLED rpc_start_flow_begin(f, params)
            /\ ~ENABLED (/\ rpc_start_flow_begin(f, params)
                         /\ ~(pending' = pending /\ fs'[f] = Idle))

\* C34: whenever rpc_start_flow returns an error, no flow of that call is registered:
\* for the errors before store_pending_flow, and for the error of a bind that fails
\* in ensure_server_running.
C34_StartErrorLeavesPending ==
    /\ StartErrorBeforeStoreLeavesPending
    /\ \A f \in Starters :
          fs[f].pc = "ensure" =>
             \A b \in BindOutcomes :
                ~rpc_start_flow_reply(fs[f], ensure_server_running(serverRunning, b)).ok
                => ~ENABLED (/\ rpc_start_flow_ensure(f, b)
                             /\ fs[f].state \in DOMAIN pending')

\* The consumer stores every granted outcome it holds, under the outcome's server_id:
\* it holds no other, can take its step once the guard is free, and that step leaves
\* a record under that server_id.
ConsumerStoresWhatItHolds ==
    consumer # None =>
        /\ Unwrap(consumer).tokens.ok
        /\ StoreLockFree => ENABLED handle_token_result("none")
        /\ ~ENABLED (/\ handle_token_result("none")
                     /\ Unwrap(consumer).server_id \notin DOMAIN tokenStore')

\* C35: a revoke of server_id cancels the outcomes of earlier flows for server_id:
\* when rpc_revoke has returned, no granted outcome for server_id is with the
\* consumer, in the channel or with a handler about to publish it, so the consumer,
\* which stores every granted outcome it receives, cannot put a record for server_id
\* back before a flow started after the revoke completes.
C35_RevokeCancelsEarlierOutcomes ==
    /\ ConsumerStoresWhatItHolds
    /\ \A server_id \in Servers :
          ~ENABLED (/\ rpc_revoke(server_id, "none")
                    /\ \/ /\ consumer' # None
                          /\ Unwrap(consumer').server_id = server_id
                       \/ \E i \in DOMAIN chan' :
                             chan'[i].tokens.ok /\ chan'[i].server_id = server_id
                       \/ \E h \in Handlers :
                             /\ hs'[h].pc = "send"
                             /\ hs'[h].tokens.ok
                             /\ hs'[h].flow.server_id = server_id)

\* In this step the handler h publishes one outcome with the server_id, provider and
\* scopes of the flow it took, and returns its page.
PublishesOutcome(h) ==
    /\ Len(chan') = Len(chan) + 1
    /\ SubSeq(chan', 1, Len(chan)) = chan
    /\ chan'[Len(chan')].server_id = hs[h].flow.server_id
    /\ chan'[Len(chan')].provider = hs[h].flow.provider_id
    /\ chan'[Len(chan')].scopes = hs[h].flow.scopes
    /\ hs'[h] = Idle

\* A handler that has called exchange_code publishes its result, granted or not: the
\* exchange step keeps the flow and goes on to the send, and the send publishes one
\* outcome of that flow and returns.
ExchangedFlowsPublish ==
    \A h \in Handlers :
        /\ hs[h].pc = "exchange" =>
              \A r \in ExchangeResponses(issued + 1) :
                 ~ENABLED (/\ handle_callback_exchange(h, r)
                           /\ ~(/\ hs'[h].pc = "send"
                                /\ hs'[h].flow = hs[h].flow
                                /\ hs'[h].tokens.ok <=> r.kind = "ok"
                                /\ chan' = chan))
        /\ hs[h].pc = "send" =>
              /\ ~ENABLED (handle_callback_send(h) /\ ~PublishesOutcome(h))
              /\ ~ENABLED (/\ handle_callback_send(h)
                           /\ chan'[Len(chan')].tokens # hs[h].tokens)

\* C36: a handler that has taken a flow out of the pending map returns its page only
\* in a step that publishes one outcome of that flow: after an exchange, and also when
\* it finds no credentials for the flow's provider.
C36_OneOutcomePerFlow ==
    /\ ExchangedFlowsPublish
    /\ \A h \in Handlers :
          hs[h].pc = "exchange" =>
             ~ENABLED (handle_callback_unconfigured(h) /\ ~PublishesOutcome(h))

\* What a granted refresh for server_id may change in the store `before`: the token
\* set and updated_at of the record under server_id, and nothing else.
OnlyTokensRefreshed(before, after, server_id) ==
    /\ DOMAIN after = DOMAIN before
    /\ after[server_id].server_id = server_id
    /\ after[server_id].server_id = before[server_id].server_id
    /\ after[server_id].provider = before[server_id].provider
    /\ after[server_id].scopes = before[server_id].scopes
    /\ after[server_id].created_at = before[server_id].created_at
    /\ \A sv \in DOMAIN before \ {server_id} : after[sv] = before[sv]

\* C37: a refresh the provider grants changes, of the store, only the token set and
\* updated_at of the record it refreshes, whether or not the file can then be written:
\* the record's server_id, provider, scopes and created_at are as before, it is still
\* under its own server_id, and every other record is as before.
C37_RefreshFrame ==
    \A c \in Clients :
        gs[c].pc = "refreshing"
        => \A response \in {r \in TokenResponses(issued + 1) : r.kind = "ok"} :
              \A fault \in SaveFaults :
                 /\ OnlyTokensRefreshed(
                        tokenStore,
                        get_access_token_refreshed(tokenStore, disk,
                            Unwrap(gs[c].server_id), response, fault, NowMs).store,
                        Unwrap(gs[c].server_id))
                 /\ ~ENABLED ( /\ rpc_get_tokens_finish(c, response, fault)
                               /\ ~OnlyTokensRefreshed(tokenStore, tokenStore',
                                                       Unwrap(gs[c].server_id)) )

\* C37 happens: the provider can grant a refresh of a record created before the
\* current time while the store holds another record beside it.
C37_RefreshBesideAnother ==
    \E c \in Clients :
        /\ gs[c].pc = "refreshing"
        /\ tokenStore[Unwrap(gs[c].server_id)].created_at < NowMs
        /\ DOMAIN tokenStore # {Unwrap(gs[c].server_id)}
        /\ \E r \in TokenResponses(issued + 1) :
              r.kind = "ok" /\ ENABLED rpc_get_tokens_finish(c, r, "none")

\* The consumer holds a granted outcome for the server_id whose record the call c is
\* refreshing.
StoreBehindRefresh(c) ==
    /\ gs[c].pc = "refreshing"
    /\ consumer # None
    /\ Unwrap(consumer).tokens.ok
    /\ Unwrap(consumer).server_id = Unwrap(gs[c].server_id)

\* C38: a refresh and the consumer's store for the same server_id are serial. From the
\* step in which a call reads the record it refreshes to the step in which it puts the
\* refreshed record in place, no step changes the store or the file, and the consumer
\* cannot write; the refreshed record is built from the record in place at that moment;
\* and when the consumer writes, with no refresh in flight, the record it leaves is
\* wholly the one of its outcome. So the record left is that of the refresh followed
\* by the store, or of the store followed by the call.
C38_RefreshAndStoreSerial ==
    /\ [][\A c \in Clients :
             (gs[c].pc = "refreshing" /\ gs'[c].pc = "refreshing")
             => (tokenStore' = tokenStore /\ disk' = disk)]_vars
    /\ [](\A c \in Clients :
             /\ StoreBehindRefresh(c)
                => /\ \A fault \in SaveFaults : ~ENABLED handle_token_result(fault)
                   /\ ~ENABLED handle_token_result_write
                   /\ \A response \in {r \in TokenResponses(issued + 1) : r.kind = "ok"} :
                         ~ENABLED ( /\ rpc_get_tokens_finish(c, response, "none")
                                    /\ ~( /\ consumer' = consumer
                                          /\ storeLock' = None
                                          /\ tokenStore'[Unwrap(gs[c].server_id)]
                                                = RefreshedRecord(
                                                    tokenStore[Unwrap(gs[c].server_id)],
                                                    tokenStore'[Unwrap(gs[c].server_id)].tokens,
                                                    NowMs) ) )
             /\ (consumer # None /\ Unwrap(consumer).tokens.ok /\ StoreLockFree)
                => /\ gs[c].pc # "refreshing"
                   /\ ~ENABLED ( /\ handle_token_result("none")
                                 /\ tokenStore'[Unwrap(consumer).server_id]
                                       # StoredFromResult(Unwrap(consumer), NowMs) ))

\* C38 happens: the consumer holds a granted outcome for the server_id whose refresh
\* the provider is about to grant.
C38_StoreWaitsForRefresh ==
    \E c \in Clients :
        /\ StoreBehindRefresh(c)
        /\ \E r \in TokenResponses(issued + 1) :
              r.kind = "ok" /\ ENABLED rpc_get_tokens_finish(c, r, "none")

\* The token sets granted for server_id on their way, oldest first: the one in the
\* store, the one the consumer is about to store, and those of the granted outcomes in
\* the channel in the order they were published.
GrantedInOrder(store, cons, ch, server_id) ==
    LET IsGranted(result) == result.tokens.ok /\ result.server_id = server_id
        queued == SelectSeq(ch, IsGranted)
    IN
    (IF server_id \in DOMAIN store THEN <<store[server_id].tokens>> ELSE << >>)
    \o (IF cons # None /\ Unwrap(cons).server_id = server_id
        THEN <<Unwrap(cons).tokens.val>> ELSE << >>)
    \o [i \in 1 .. Len(queued) |-> queued[i].tokens.val]

\* The token set the record of server_id holds once the consumer has stored all that
\* is on the way: that of the granted outcome published last, or the stored one.
LastPublished(store, cons, ch, server_id) ==
    LET on_the_way == GrantedInOrder(store, cons, ch, server_id) IN
    IF on_the_way = << >> THEN None ELSE Some(on_the_way[Len(on_the_way)])

\* C39: the consumer stores granted outcomes in the order in which the handlers
\* published them. Receiving takes the oldest outcome and leaves the others in order,
\* storing puts the received outcome's token set in the record, and neither changes
\* which token set the record of any server_id will hold in the end; publishing a
\* granted outcome for a server_id makes its token set the one that record will hold,
\* and changes that of no other server_id. So with the channel drained the record
\* holds the token set of the outcome published last.
C39_StoredInPublishedOrder ==
    /\ ~ENABLED ( /\ token_handler_recv
                  /\ ~( /\ chan' = Tail(chan)
                        /\ Head(chan).tokens.ok => consumer' = Some(Head(chan))
                        /\ \A sv \in Servers :
                              LastPublished(tokenStore', consumer', chan', sv)
                                 = LastPublished(tokenStore, consumer, chan, sv) ) )
    /\ ~ENABLED ( /\ handle_token_result("none")
                  /\ ~( /\ chan' = chan
                        /\ consumer' = None
                        /\ tokenStore'[Unwrap(consumer).server_id].tokens
                              = Unwrap(consumer).tokens.val
                        /\ \A sv \in Servers :
                              LastPublished(tokenStore', consumer', chan', sv)
                                 = LastPublished(tokenStore, consumer, chan, sv) ) )
    /\ \A h \in Handlers :
          ~ENABLED ( /\ handle_callback_send(h)
                     /\ ~( \A sv \in Servers :
                              LastPublished(tokenStore', consumer', chan', sv)
                                 = IF hs[h].tokens.ok /\ hs[h].flow.server_id = sv
                                   THEN Some(hs[h].tokens.val)
                                   ELSE LastPublished(tokenStore, consumer, chan, sv) ) )
    /\ (consumer = None /\ chan = << >>)
          => \A sv \in Servers :
                LastPublished(tokenStore, consumer, chan, sv)
                   = IF sv \in DOMAIN tokenStore THEN Some(tokenStore[sv].tokens) ELSE None

\* C39 happens: two granted outcomes for one server_id with different token sets are
\* in the channel, the consumer being about to receive.
C39_TwoOutcomesQueued ==
    /\ Len(chan) = 2
    /\ chan[1].tokens.ok /\ chan[2].tokens.ok
    /\ chan[1].server_id = chan[2].server_id
    /\ chan[1].tokens.val # chan[2].tokens.val
    /\ ENABLED token_handler_recv

\* C40: the tasks do not deadlock, the provider answering its token requests. The
\* credential lock and the pending-flow lock are held within one step only (a credential
\* set or remove and a flow start are always possible); the listener flag is held for
\* the bind only (a flow start that has registered its flow returns); the store's
\* write guard, when held, is released, and status and revoke get it when it is free;
\* every callback request, every rpc_get_tokens call and every outcome the consumer
\* received completes, and the channel is drained.
C40_NoTaskWaitsForEver ==
    /\ [](/\ ENABLED rpc_set_credentials("google", "cid1", "sec1")
          /\ ENABLED rpc_remove_credentials("google")
          /\ (fs["f1"].pc = "idle" /\ flows < MaxFlows /\ "google" \in DOMAIN creds)
                => ENABLED rpc_start_flow_begin("f1", GoogleStart("srv1"))
          /\ StoreLockFree => ENABLED rpc_status("srv1") /\ ENABLED rpc_revoke("srv1", "none"))
    /\ fs["f1"].pc # "idle" ~> fs["f1"].pc = "idle"
    /\ hs["h1"].pc # "idle" ~> hs["h1"].pc = "idle"
    /\ gs["g1"].pc # "idle" ~> gs["g1"].pc = "idle"
    /\ storeLock # None ~> storeLock = None
    /\ consumer # None ~> consumer = None
    /\ chan # << >> ~> chan = << >>

\* C40 happens: a refresh holds the store's write guard while the consumer waits for
\* it with an outcome to store, the handler has another outcome to publish and a flow
\* start is at the bind.
C40_AllTasksBusy ==
    /\ gs["g1"].pc = "refreshing"
    /\ consumer # None
    /\ hs["h1"].pc # "idle"
    /\ fs["f1"].pc # "idle"

====
